---- MODULE Spec2Model ----
(***************************************************************************)
(* A model of the LED-tree controller: the Effect base class and its      *)
(* lifecycle (src/src/effect_base.py), the Rainbow and HeightGradient      *)
(* effects (src/effects), the colour helpers (src/utils/color_utils.py)    *)
(* and the construction of the spatial model (src/src/tree_model.py).      *)
(*                                                                         *)
(* Numbers.  Wall-clock time is counted in whole seconds.  A Python float  *)
(* is modelled by an exact fraction <<num, den>> or by a numerator over a  *)
(* stated denominator; the inputs are chosen so that the denominators are  *)
(* powers of two and the values small, where IEEE double arithmetic is     *)
(* exact and agrees with the fraction.  A ratio such as 3/7 is not covered *)
(* by this: Python rounds it, and int() of a rounded sum can be one less   *)
(* than the exact value.  blend_colors, fade_to_black and blur therefore   *)
(* compute in doubles, rounding after every operation (RoundDouble).       *)
(*                                                                         *)
(* An object is a record; a method is an operator from the record (self)   *)
(* to the record after the call.  The fields `last` and `hooks` record     *)
(* the most recent public call and the overridable hooks it invoked; `run` *)
(* summarises the calls since the last start(); `shade` holds the distance *)
(* and the brightness the last update computed for each LED.               *)
(*                                                                         *)
(* run_effect (src/main.py) is a process of its own: `driver` holds its    *)
(* position, its locals and a log of the frames it handed to the sink.     *)
(***************************************************************************)
EXTENDS Integers, Sequences, FiniteSets, TLC

VARIABLES now, effect, tree, source, call, driver

vars == <<now, effect, tree, source, call, driver>>

(* ------------------------------ bounds -------------------------------- *)

\* The wall clock runs from 0 to MaxTime seconds.
MaxTime == 3
\* At most MaxFrames frames are ticked between two resets of frame_count.
MaxFrames == 2
\* The Rainbow phase offset is followed up to MaxPhase steps of RainbowRate.
MaxPhase == 6
\* The number of LEDs of an effect that has no spatial model.
LedCount == 2
\* A coordinate file holds at most MaxRows rows.
MaxRows == 3
\* The configured LED count runs from 1 to MaxCount.
MaxCount == 3

(* ----------------------------- constants ------------------------------ *)

\* The value of start_time before the first start()
None == 0 - 1
\* offset += dt * speed * 50
RainbowRate == 50
\* wheel(): the colour wheel has 256 positions, in three segments of 85
WheelSize == 256
WheelSegment == 85
ChannelMax == 255

Inst == {1, 2}

Min(a, b) == IF a < b THEN a ELSE b
Max(a, b) == IF a > b THEN a ELSE b

(* ----------------------------- colour math ---------------------------- *)

\* A wheel that does not invert its position (no pos = 255 - pos)
wheel_NotInverted(pos) ==
    LET p == pos
    IN  IF p < WheelSegment
        THEN <<ChannelMax - p * 3, 0, p * 3>>
        ELSE IF p < 2 * WheelSegment
             THEN <<0, (p - WheelSegment) * 3, ChannelMax - (p - WheelSegment) * 3>>
             ELSE <<(p - 2 * WheelSegment) * 3,
                    ChannelMax - (p - 2 * WheelSegment) * 3, 0>>

\* wheel(pos) for an integer position
wheel(pos) ==
    LET p == ChannelMax - pos
    IN  IF p < WheelSegment
        THEN <<ChannelMax - p * 3, 0, p * 3>>
        ELSE IF p < 2 * WheelSegment
             THEN <<0, (p - WheelSegment) * 3, ChannelMax - (p - WheelSegment) * 3>>
             ELSE <<(p - 2 * WheelSegment) * 3,
                    ChannelMax - (p - 2 * WheelSegment) * 3, 0>>

\* int(x) for the fraction n/d, d > 0: truncation toward zero
IntOf(n, d) == IF n >= 0 THEN n \div d ELSE 0 - ((0 - n) \div d)

(* IEEE double arithmetic, for values below 2^15 that are multiples of    *)
(* 2^-60.  Such a value is a list of five limbs of 15 bits, lowest first: *)
(* limbs 1-4 hold the 60 fraction bits and limb 5 the integer part.  The  *)
(* sum, the difference and the product by a small integer are computed    *)
(* exactly and RoundDouble rounds the exact result to 53 significant      *)
(* bits, ties to even, as the hardware does.  The operations are          *)
(* functions, so that an argument is computed once, before the call.      *)
LimbBits == 15
Limbs == 5
FracLimbs == 4
Mantissa == 53
Base == 2 ^ LimbBits
Fix == [1..Limbs -> 0..(Base - 1)]

FixInt(k) == <<0, 0, 0, 0, k>>
FixUlp == <<1, 0, 0, 0, 0>>

\* The list of limbs of a function over 1..Limbs
FixOf(f) == SubSeq(f, 1, Limbs)

RECURSIVE AddCarry(_, _, _)
AddCarry(a, b, i) ==
    IF i = 1 THEN 0 ELSE (a[i - 1] + b[i - 1] + AddCarry(a, b, i - 1)) \div Base

\* a + b, exactly
FixAdd[a \in Fix, b \in Fix] ==
    FixOf([i \in 1..Limbs |-> (a[i] + b[i] + AddCarry(a, b, i)) % Base])

RECURSIVE Borrow(_, _, _)
Borrow(a, b, i) ==
    IF i = 1 THEN 0
    ELSE IF a[i - 1] - b[i - 1] - Borrow(a, b, i - 1) < 0 THEN 1 ELSE 0

\* a - b for a >= b, exactly
FixSub[a \in Fix, b \in Fix] ==
    FixOf([i \in 1..Limbs |-> (a[i] - b[i] - Borrow(a, b, i) + Base) % Base])

RECURSIVE MulCarry(_, _, _)
MulCarry(a, c, i) ==
    IF i = 1 THEN 0 ELSE (a[i - 1] * c + MulCarry(a, c, i - 1)) \div Base

\* a * c for an integer c in 0..255, exactly
FixMul[a \in Fix, c \in 0..ChannelMax] ==
    FixOf([i \in 1..Limbs |-> (a[i] * c + MulCarry(a, c, i)) % Base])

RECURSIVE IntBits(_)
IntBits(n) == IF n = 0 THEN 0 ELSE 1 + IntBits(n \div 2)

\* The number of significant bits of a, counted from its lowest limb bit
FixBits(a) ==
    IF \A i \in 1..Limbs : a[i] = 0 THEN 0
    ELSE LET top == CHOOSE i \in 1..Limbs :
                       a[i] # 0 /\ \A j \in (i + 1)..Limbs : a[j] = 0
         IN  LimbBits * (top - 1) + IntBits(a[top])

\* Bit k of a (bit 0 is the lowest), the value 2^k, a without its k low bits
FixBit(a, k) == (a[(k \div LimbBits) + 1] \div (2 ^ (k % LimbBits))) % 2
FixPow2(k) ==
    FixOf([i \in 1..Limbs |->
             IF i = (k \div LimbBits) + 1 THEN 2 ^ (k % LimbBits) ELSE 0])
FixTruncate[a \in Fix, k \in Nat] ==
    FixOf([i \in 1..Limbs |->
             IF i < (k \div LimbBits) + 1 THEN 0
             ELSE IF i = (k \div LimbBits) + 1
                  THEN a[i] - (a[i] % (2 ^ (k % LimbBits)))
             ELSE a[i]])

\* The double nearest to the exact value a: round to nearest, ties to even
RoundDouble[a \in Fix] ==
    LET drop == FixBits(a) - Mantissa
    IN  IF drop <= 0 THEN a
        ELSE FixTruncate[FixAdd[a, IF FixBit(a, drop) = 1
                                   THEN FixPow2(drop - 1)
                                   ELSE FixSub[FixPow2(drop - 1), FixUlp]],
                         drop]

RECURSIVE DivRem(_, _, _)
DivRem(num, den, k) ==
    IF k = 0 THEN num ELSE (DivRem(num, den, k - 1) * Base) % den

\* The double num / den for 0 <= num < den <= 64: the quotient to 60 bits,
\* its lowest bit set when the division left a remainder, then rounded
FloatDiv[num \in Nat, den \in Nat] ==
    LET q == FixOf([i \in 1..Limbs |->
                      IF i = Limbs THEN 0
                      ELSE (DivRem(num, den, FracLimbs - i) * Base) \div den])
        sticky == IF DivRem(num, den, FracLimbs) # 0 /\ q[1] % 2 = 0 THEN 1 ELSE 0
    IN  RoundDouble[[q EXCEPT ![1] = @ + sticky]]

\* int(x) of a double x >= 0
FixFloor(a) == a[Limbs]

\* int(c1 * rest + c2 * ratio) in doubles
Mix[c1 \in 0..ChannelMax, c2 \in 0..ChannelMax, rest \in Fix, ratio \in Fix] ==
    FixFloor(RoundDouble[FixAdd[RoundDouble[FixMul[rest, c1]],
                                RoundDouble[FixMul[ratio, c2]]]])

\* The double num / den for 0 <= num <= den
FloatOf(num, den) ==
    IF num = 0 THEN FixInt(0)
    ELSE IF num = den THEN FixInt(1)
    ELSE FloatDiv[num, den]

\* The double max(0, min(1, num / den)), den > 0
ClampedRatio(num, den) == FloatOf(Max(0, Min(den, num)), den)

\* blend_colors(color1, color2, ratio) for the double ratio = num / den,
\* den > 0: ratio = max(0, min(1, ratio)), then for each channel
\* int(color1[k] * (1 - ratio) + color2[k] * ratio)
blend_colors(color1, color2, num, den) ==
    LET ratio == ClampedRatio(num, den)
    IN  <<Mix[color1[1], color2[1], RoundDouble[FixSub[FixInt(1), ratio]], ratio],
          Mix[color1[2], color2[2], RoundDouble[FixSub[FixInt(1), ratio]], ratio],
          Mix[color1[3], color2[3], RoundDouble[FixSub[FixInt(1), ratio]], ratio]>>

\* hsv_to_rgb(h, 1.0, 1.0) with h = num/den in [0, 1): colorsys.hsv_to_rgb,
\* each channel scaled by 255 and truncated
hsv_to_rgb(num, den) ==
    LET i == (6 * num) \div den                   \* i = int(h * 6.0)
        f == 6 * num - i * den                    \* f = h * 6.0 - i, over den
        t == IntOf(ChannelMax * f, den)           \* int(t * 255), t = f
        q == IntOf(ChannelMax * (den - f), den)   \* int(q * 255), q = 1 - f
        v == ChannelMax
    IN  CASE i % 6 = 0 -> <<v, t, 0>>
          [] i % 6 = 1 -> <<q, v, 0>>
          [] i % 6 = 2 -> <<0, v, t>>
          [] i % 6 = 3 -> <<0, q, v>>
          [] i % 6 = 4 -> <<t, 0, v>>
          [] OTHER     -> <<v, 0, q>>

(* ----------------------------- TreeModel ------------------------------ *)

\* A coordinate is a numerator over the model's `unit`: a file holds whole
\* numbers (unit 1), the fallback the fractions i/(n-1) (unit n-1).
\* A CSV cell is a number >= 0, or Text, which float() rejects.
Text == 0 - 1

Parses(cell) == cell >= 0

\* No exception pending
NoExc == "none"

\* TreeModel.__init__, lines 22-25: coordinates, bounds and center are None
NoTree ==
    [status |-> "none", led_count |-> 0, coordinates |-> <<>>, unit |-> 1,
     bounds |-> <<>>, center |-> <<>>, path |-> "none", exc |-> NoExc]

NoSource == [csv_path |-> "none", rows |-> <<>>, led_count |-> 0]

\* No helper function has been called yet; n counts the calls made
NoCall == [name |-> "none", args |-> <<>>, result |-> <<>>, n |-> 0]

\* run_effect has not been called: its position, its arguments and locals
\* (duration, start_time, frame_count), the frames stream_pixels was given
\* (sent), the time the iteration in progress began, the work and the sleep
\* of the frame paced last, the time the sleep in progress ends, the calls
\* of effect.stop() and what ended the loop
NoDriver ==
    [pc |-> "idle", duration |-> 0 - 1, start_time |-> 0 - 1, frame_count |-> 0,
     sent |-> <<>>, began |-> 0, paced |-> <<>>, wake |-> 0, stops |-> 0,
     left |-> "none"]

\* min and max of a non-empty set of numbers
SetMin(S) == CHOOSE x \in S : \A y \in S : x <= y
SetMax(S) == CHOOSE x \in S : \A y \in S : x >= y

RECURSIVE SeqSum(_)
SeqSum(q) == IF q = <<>> THEN 0 ELSE Head(q) + SeqSum(Tail(q))

\* TreeModel._calculate_bounds.  np.min over no rows raises ValueError;
\* min_coords[2] of rows narrower than three columns raises IndexError,
\* before bounds is assigned.  center is the per-column sum over
\* len(coordinates) * unit.
calculate_bounds(self) ==
    LET c == self.coordinates
        n == Len(c)
        Column(k) == [i \in 1..n |-> c[i][k]]
        Range(k) == {c[i][k] : i \in 1..n}
    IN  IF n = 0 THEN [self EXCEPT !.exc = "ValueError"]
        ELSE IF Len(c[1]) < 3 THEN [self EXCEPT !.exc = "IndexError"]
        ELSE [self EXCEPT
                !.bounds = [k \in 1..3 |-> <<SetMin(Range(k)), SetMax(Range(k))>>],
                !.center = [k \in 1..Len(c[1]) |-> SeqSum(Column(k))]]

\* A fallback whose z values stop one step short of 1, as
\* np.linspace(0, 1, led_count, endpoint=False) would give
create_linear_fallback_NoEndpoint(self) ==
    LET n == self.led_count
    IN  calculate_bounds(
            [self EXCEPT !.coordinates = [i \in 1..n |-> <<0, 0, i - 1>>],
                         !.unit = n,
                         !.path = "fallback"])

\* TreeModel._create_linear_fallback: np.zeros((led_count, 3)) with
\* z = np.linspace(0, 1, led_count)
create_linear_fallback(self) ==
    LET n == self.led_count
    IN  calculate_bounds(
            [self EXCEPT !.coordinates = [i \in 1..n |-> <<0, 0, i - 1>>],
                         !.unit = Max(n - 1, 1),
                         !.path = "fallback"])

\* Lines 51-58: the first row is kept when every cell of it parses
FirstRow(row) ==
    IF \A k \in 1..Len(row) : Parses(row[k]) THEN <<row>> ELSE <<>>

\* Lines 61-64: a later row counts when it has three cells or more
Usable(rows) == SelectSeq(Tail(rows), LAMBDA r : Len(r) >= 3)

\* float(row[0]), float(row[1]), float(row[2]) raises ValueError
RowFails(row) == \E k \in 1..3 : ~Parses(row[k])

\* Lines 46-64: the list of coordinates read from the rows of the file
ReadRows(rows) ==
    FirstRow(rows[1]) \o [i \in 1..Len(Usable(rows)) |-> SubSeq(Usable(rows)[i], 1, 3)]

\* np.array(coordinates, dtype=np.float32) raises ValueError on rows of
\* different lengths
Ragged(list) == \E i, j \in 1..Len(list) : Len(list[i]) # Len(list[j])

\* The exception lines 46-66 raise, if any
ReadExc(src) ==
    IF src.csv_path = "missing" THEN "FileNotFoundError"
    ELSE IF src.rows = <<>> THEN "StopIteration"
    ELSE IF \E i \in 1..Len(Usable(src.rows)) : RowFails(Usable(src.rows)[i])
         THEN "ValueError"
    ELSE IF Ragged(ReadRows(src.rows)) THEN "ValueError"
    ELSE NoExc

\* A load that keeps the configured count whatever the file holds
adopt_count_KeepsDeclared(self) == self

\* Lines 68-73: led_count follows the number of coordinates loaded
adopt_count(self) ==
    IF Len(self.coordinates) # self.led_count
    THEN [self EXCEPT !.led_count = Len(self.coordinates)]
    ELSE self

\* TreeModel.load_from_csv: every exception of the try block is caught and
\* answered by the fallback, run on the object as the exception left it
load_from_csv(self, src) ==
    IF ReadExc(src) # NoExc
    THEN create_linear_fallback(self)
    ELSE LET s1 == [self EXCEPT !.coordinates = ReadRows(src.rows),
                                !.unit = 1, !.path = "loaded"]
             s2 == calculate_bounds(adopt_count(s1))
         IN  IF s2.exc # NoExc
             THEN create_linear_fallback([s2 EXCEPT !.exc = NoExc])
             ELSE s2

\* TreeModel.__init__(csv_path, led_count): the object, or the exception
\* that left the constructor (status "raised")
TreeModelInit(src) ==
    LET self == [NoTree EXCEPT !.led_count = src.led_count]
        made == IF src.csv_path # "none"
                THEN load_from_csv(self, src)
                ELSE create_linear_fallback(self)
    IN  [made EXCEPT !.status = IF made.exc = NoExc THEN "ok" ELSE "raised"]

\* Heights that divide z by z_max without moving z_min to 0
get_height_normalized_FromZero(self) ==
    LET z_min == self.bounds[3][1]
        z_max == self.bounds[3][2]
    IN  IF z_max > z_min
        THEN [i \in 1..Len(self.coordinates) |-> <<self.coordinates[i][3], z_max>>]
        ELSE [i \in 1..self.led_count |-> <<0, 1>>]

\* TreeModel.get_height_normalized: one fraction <<num, den>> per LED
get_height_normalized(self) ==
    LET z_min == self.bounds[3][1]
        z_max == self.bounds[3][2]
    IN  IF z_max > z_min
        THEN [i \in 1..Len(self.coordinates) |->
                <<self.coordinates[i][3] - z_min, z_max - z_min>>]
        ELSE [i \in 1..self.led_count |-> <<0, 1>>]

\* The square root of a perfect square
Root(n) == CHOOSE r \in 0..n : r * r = n

Abs(x) == IF x < 0 THEN 0 - x ELSE x

\* TreeModel.get_position(led_index): the row of the coordinates itself (a
\* view, not a copy), led_index counted from 0
get_position(self, led_index) == self.coordinates[led_index + 1]

\* TreeModel.get_distances_from_point(point): one distance per LED, as a
\* numerator over self.unit
get_distances_from_point(self, point) ==
    [i \in 1..Len(self.coordinates) |->
        Root((self.coordinates[i][1] - point[1]) * (self.coordinates[i][1] - point[1])
             + (self.coordinates[i][2] - point[2]) * (self.coordinates[i][2] - point[2])
             + (self.coordinates[i][3] - point[3]) * (self.coordinates[i][3] - point[3]))]

\* An angle is counted in eighths of a turn
TurnParts == 8

\* np.arctan2(y, x), in (-pi, pi], for the zero vector and the eight
\* directions of the compass
arctan2(y, x) ==
    CASE y = 0 /\ x >= 0 -> 0
      [] y = 0 /\ x < 0  -> 4
      [] x = 0 /\ y > 0  -> 2
      [] x = 0 /\ y < 0  -> 0 - 2
      [] y = x /\ x > 0  -> 1
      [] y = x /\ x < 0  -> 0 - 3
      [] y = 0 - x /\ x < 0 -> 3
      [] y = 0 - x /\ x > 0 -> 0 - 1

\* The x or y offset of LED i from the center, as a numerator over
\* led_count * unit (center holds the column sums)
Centered(self, i, k) ==
    Len(self.coordinates) * self.coordinates[i][k] - self.center[k]

\* TreeModel.get_angle_from_center: (arctan2(y, x) + 2 pi) % (2 pi) per LED
get_angle_from_center(self) ==
    [i \in 1..Len(self.coordinates) |->
        (arctan2(Centered(self, i, 2), Centered(self, i, 1)) + TurnParts) % TurnParts]

\* TreeModel.get_radial_distance: one numerator over led_count * unit per LED
get_radial_distance(self) ==
    [i \in 1..Len(self.coordinates) |->
        Root(Centered(self, i, 1) * Centered(self, i, 1)
             + Centered(self, i, 2) * Centered(self, i, 2))]

(* ----------------------------- Effect base ---------------------------- *)

Black == <<0, 0, 0>>

\* np.zeros((led_count, 3), dtype=np.uint8)
ZeroPixels(n) == [i \in 1..n |-> Black]

NoRun == [clean |-> FALSE, n |-> 0, sum |-> 0]

\* An instance that has not been constructed
NoEffect ==
    [kind |-> "none", led_count |-> 0, running |-> FALSE, start_time |-> None,
     current_time |-> 0, frame_count |-> 0, pixels |-> <<>>,
     speed |-> <<0, 1>>, offset |-> 0,
     heights |-> <<>>, colors |-> <<>>, animated |-> FALSE,
     width |-> <<0, 1>>, num_pulses |-> 0, max_distance |-> 0, origins |-> <<>>,
     hue |-> <<0, 1>>, angles |-> <<>>, rotations |-> 0, shade |-> <<>>,
     last |-> "none", hooks |-> <<>>, run |-> NoRun]

\* Effect.__init__
EffectInit(kind, led_count) ==
    [NoEffect EXCEPT !.kind = kind, !.led_count = led_count,
                     !.pixels = ZeroPixels(led_count), !.last = "init"]

\* Entry of a public method: the log of hook calls starts empty
Call(self, name) == [self EXCEPT !.last = name, !.hooks = <<>>]

Invoked(self, hook, dt) ==
    [self EXCEPT !.hooks = Append(@, [hook |-> hook, dt |-> dt])]

\* Effect.on_start, Effect.on_stop: the base hooks do nothing
on_start(self) == Invoked(self, "on_start", 0)
on_stop(self) == Invoked(self, "on_stop", 0)

\* A set_pixel without the range test: Python counts a negative index from
\* the end of the buffer
set_pixel_NoCheck(self, index, rgb) ==
    IF 0 <= index /\ index < self.led_count
    THEN [self EXCEPT !.pixels[index + 1] = rgb]
    ELSE IF 0 - self.led_count <= index /\ index < 0
         THEN [self EXCEPT !.pixels[self.led_count + index + 1] = rgb]
         ELSE self

\* Effect.set_pixel(index, r, g, b), index counted from 0
set_pixel(self, index, rgb) ==
    IF 0 <= index /\ index < self.led_count
    THEN [self EXCEPT !.pixels[index + 1] = rgb]
    ELSE self

\* A set_all_pixels that rebinds the buffer to the one row it was given
\* (self.pixels = np.array([[r, g, b]]))
set_all_pixels_Rebinds(self, rgb) == [self EXCEPT !.pixels = <<rgb>>]

\* Effect.set_all_pixels(r, g, b): self.pixels[:] = [r, g, b]
set_all_pixels(self, rgb) ==
    [self EXCEPT !.pixels = [i \in 1..Len(self.pixels) |-> rgb]]

\* Effect.clear(): self.pixels.fill(0)
clear(self) == [self EXCEPT !.pixels = [i \in 1..Len(self.pixels) |-> Black]]

\* Effect.fade_to_black(fade_amount) for the double fade_amount = num / den
\* in [0, 1]: (self.pixels * (1.0 - fade_amount)).astype(np.uint8)
fade_to_black(self, num, den) ==
    LET rest == RoundDouble[FixSub[FixInt(1), FloatOf(num, den)]]
    IN  [self EXCEPT !.pixels =
            [i \in 1..Len(self.pixels) |->
                [k \in 1..3 |-> FixFloor(RoundDouble[FixMul[rest, self.pixels[i][k]]])]]]

\* Lines 145-149: the copy of the buffer whose interior LEDs hold the
\* 0.25 / 0.5 / 0.25 filter of the buffer, stored as uint8 (truncated)
Blurred(pixels) ==
    [i \in 1..Len(pixels) |->
        IF 1 < i /\ i < Len(pixels)
        THEN [k \in 1..3 |->
                IntOf(pixels[i - 1][k] + 2 * pixels[i][k] + pixels[i + 1][k], 4)]
        ELSE pixels[i]]

\* Effect.blur(amount) for the double amount = num / den in [0, 1]
blur(self, num, den) ==
    IF num <= 0 THEN self
    ELSE LET amount == FloatOf(num, den)
             rest == RoundDouble[FixSub[FixInt(1), amount]]
             blurred == Blurred(self.pixels)
         IN  [self EXCEPT !.pixels =
                [i \in 1..Len(self.pixels) |->
                    [k \in 1..3 |->
                        Mix[self.pixels[i][k], blurred[i][k], rest, amount]]]]

\* Effect.get_time
get_time(self) == self.current_time

(* ------------------------------- Rainbow ------------------------------ *)

\* RainbowEffect.__init__(led_count, speed=...), speed = <<num, den>>
RainbowInit(led_count, speed) ==
    [EffectInit("Rainbow", led_count) EXCEPT !.speed = speed, !.offset = 0]

\* A wheel position that is not reduced modulo 256
pixel_index_Unreduced(i, n, off, den) ==
    IntOf(i * WheelSize * den + off * n, n * den)

\* Line 31, pixel_index = int((i * 256 / led_count) + offset) % 256, for
\* LED i (from 0) of n and offset = off/den
pixel_index(i, n, off, den) ==
    IntOf(i * WheelSize * den + off * n, n * den) % WheelSize

\* RainbowEffect.update(dt).  offset is kept as a numerator over speed[2]
RainbowUpdate(self, dt) ==
    LET n   == self.led_count
        den == self.speed[2]
        off == self.offset + dt * self.speed[1] * RainbowRate
    IN  [self EXCEPT
           !.offset = off,
           !.pixels = [k \in 1..n |-> wheel(pixel_index(k - 1, n, off, den))]]

(* --------------------------- HeightGradient --------------------------- *)

\* HeightGradientEffect._interpolate_colors(position), position = num/den
interpolate_colors(colors, num, den) ==
    IF Len(colors) = 1 THEN colors[1]
    ELSE LET segs == Len(colors) - 1            \* segment_size = 1 / segs
             idx  == Min(IntOf(num * segs, den), Len(colors) - 2)
             \* segment_pos = (position - idx * segment_size) / segment_size
             pos  == num * segs - idx * den
         IN  blend_colors(colors[idx + 1], colors[idx + 2], pos, den)

\* HeightGradientEffect.update(dt).  heights[i] and speed are fractions;
\* height = (heights[i] + get_time() * speed) % 1.0 over the common
\* denominator of the two
GradientUpdate(self, dt) ==
    LET sn == IF self.animated THEN self.speed[1] ELSE 0
        sd == self.speed[2]
        Height(k) ==
            LET h == self.heights[k]
                d == h[2] * sd
            IN  <<(h[1] * sd + get_time(self) * sn * h[2]) % d, d>>
        Colour(k) ==
            IF self.colors = <<>>                 \* colors is None
            THEN hsv_to_rgb(Height(k)[1], Height(k)[2])
            ELSE interpolate_colors(self.colors, Height(k)[1], Height(k)[2])
        Loop[k \in 0..self.led_count] ==
            IF k = 0 THEN self ELSE set_pixel(Loop[k - 1], k - 1, Colour(k))
    IN  Loop[self.led_count]

\* HeightGradientEffect.__init__(led_count, tree_model=..., colors=...,
\* animated=..., speed=...) with the heights tree_model.get_height_normalized()
\* returned; colors None is <<>>
HeightGradientInit(led_count, heights, colors, animated, speed) ==
    [EffectInit("HeightGradient", led_count) EXCEPT
       !.heights = heights, !.colors = colors, !.animated = animated,
       !.speed = speed]

(* ----------------------------- SpherePulse ---------------------------- *)

\* hsv_to_rgb(h, 1.0, v) with h = num/den in [0, 1) and v = vnum/vden:
\* colorsys.hsv_to_rgb (p = 0, q = v(1 - f), t = v f), each channel scaled
\* by 255 and truncated
hsv_to_rgb_v(num, den, vnum, vden) ==
    LET i == (6 * num) \div den
        f == 6 * num - i * den
        v == IntOf(ChannelMax * vnum, vden)
        t == IntOf(ChannelMax * vnum * f, vden * den)
        q == IntOf(ChannelMax * vnum * (den - f), vden * den)
    IN  CASE i % 6 = 0 -> <<v, t, 0>>
          [] i % 6 = 1 -> <<q, v, 0>>
          [] i % 6 = 2 -> <<0, v, t>>
          [] i % 6 = 3 -> <<0, q, v>>
          [] i % 6 = 4 -> <<t, 0, v>>
          [] OTHER     -> <<v, 0, q>>

\* SpherePulseEffect._calculate_max_distance, a numerator over the unit of
\* the model
calculate_max_distance(tree_model) ==
    Root((tree_model.bounds[1][2] - tree_model.bounds[1][1])
            * (tree_model.bounds[1][2] - tree_model.bounds[1][1])
         + (tree_model.bounds[2][2] - tree_model.bounds[2][1])
            * (tree_model.bounds[2][2] - tree_model.bounds[2][1])
         + (tree_model.bounds[3][2] - tree_model.bounds[3][1])
            * (tree_model.bounds[3][2] - tree_model.bounds[3][1]))

\* SpherePulseEffect.__init__(led_count, tree_model=..., speed=...,
\* pulse_width=..., num_pulses=...) for a model that is given; draws[p] is
\* the LED np.random.randint picked for pulse p, and the origin kept is the
\* row of the model (get_position returns a view), so the index stands for it
SpherePulseInit(led_count, tree_model, speed, pulse_width, draws) ==
    [EffectInit("SpherePulse", led_count) EXCEPT
       !.speed = speed, !.width = pulse_width, !.num_pulses = Len(draws),
       !.max_distance = calculate_max_distance(tree_model),
       !.origins = draws]

\* Lines 59-79: what pulse p adds to LED i (from 1) of the model.  With
\* pulse_time = T/q, max_distance = m/unit and the distance a/unit of the LED
\* from the origin, dist_diff_norm is |a q - T m| / (q m); a max_distance of
\* 0 makes it nan or inf, which is not below pulse_width
PulseColour(self, tree_model, p, i) ==
    LET q == self.speed[2] * self.num_pulses
        T == (get_time(self) * self.speed[1] * self.num_pulses
                + (p - 1) * self.speed[2]) % q
        m == self.max_distance
        a == get_distances_from_point(
                 tree_model, get_position(tree_model, self.origins[p]))[i]
        N == Abs(a * q - T * m)
        wn == self.width[1]
        wd == self.width[2]
        \* brightness = (1 - dist_diff_norm / pulse_width) ** 2
        bn == q * m * wn - N * wd
        bd == q * m * wn
    IN  IF m = 0 \/ N * wd >= wn * q * m
        THEN Black
        ELSE hsv_to_rgb_v(p - 1, self.num_pulses, bn * bn, bd * bd)

\* An update that composites onto the buffer as it finds it
SpherePulseUpdate_NoClear(self, tree_model, dt) ==
    LET Loop[p \in 0..self.num_pulses] ==
            IF p = 0 THEN self.pixels
            ELSE [i \in 1..self.led_count |->
                    [k \in 1..3 |->
                        Min(Loop[p - 1][i][k] + PulseColour(self, tree_model, p, i)[k],
                            ChannelMax)]]
    IN  [self EXCEPT !.pixels = Loop[self.num_pulses]]

\* SpherePulseEffect.update(dt): clear(), then every pulse adds its colour
\* to every LED near its radius, each channel capped at 255
SpherePulseUpdate(self, tree_model, dt) ==
    LET Loop[p \in 0..self.num_pulses] ==
            IF p = 0 THEN clear(self).pixels
            ELSE [i \in 1..self.led_count |->
                    [k \in 1..3 |->
                        Min(Loop[p - 1][i][k] + PulseColour(self, tree_model, p, i)[k],
                            ChannelMax)]]
    IN  [self EXCEPT !.pixels = Loop[self.num_pulses]]

(* ----------------------------- RisingWave ----------------------------- *)

\* Arithmetic on fractions <<num, den>> with den > 0
FracLess(a, b) == a[1] * b[2] < b[1] * a[2]
FracAbsDiff(a, b) == <<Abs(a[1] * b[2] - b[1] * a[2]), a[2] * b[2]>>
FracDiv(a, b) == <<a[1] * b[2], a[2] * b[1]>>
FracOneMinus(a) == <<a[2] - a[1], a[2]>>
FracSquare(a) == <<a[1] * a[1], a[2] * a[2]>>

\* RisingWaveEffect.__init__(led_count, tree_model=..., speed=...,
\* wave_height=..., hue=...) with the heights the model returned
RisingWaveInit(led_count, heights, speed, wave_height, hue) ==
    [EffectInit("RisingWave", led_count) EXCEPT
       !.heights = heights, !.speed = speed, !.width = wave_height,
       !.hue = hue]

\* Line 45: wave_pos = (time * self.speed) % 1.0
wave_pos(self) ==
    <<(get_time(self) * self.speed[1]) % self.speed[2], self.speed[2]>>

\* A brightness that is not squared
wave_brightness_Linear(dist, wave_height) ==
    IF FracLess(dist, wave_height)
    THEN FracOneMinus(FracDiv(dist, wave_height))
    ELSE <<0, 1>>

\* Lines 53-57: the brightness at the distance dist from the wave
wave_brightness(dist, wave_height) ==
    IF FracLess(dist, wave_height)
    THEN FracSquare(FracOneMinus(FracDiv(dist, wave_height)))
    ELSE <<0, 1>>

\* RisingWaveEffect.update(dt)
RisingWaveUpdate(self, dt) ==
    LET Shade(k) ==
            LET dist == FracAbsDiff(self.heights[k], wave_pos(self))
            IN  [diff |-> dist,
                 brightness |-> wave_brightness(dist, self.width)]
        Colour(k) ==
            hsv_to_rgb_v(self.hue[1], self.hue[2],
                         Shade(k).brightness[1], Shade(k).brightness[2])
        Loop[k \in 0..self.led_count] ==
            IF k = 0 THEN self ELSE set_pixel(Loop[k - 1], k - 1, Colour(k))
    IN  [Loop[self.led_count] EXCEPT
           !.shade = [k \in 1..self.led_count |-> Shade(k)]]

(* ---------------------- Spiral and RotatingPlane ---------------------- *)

\* Angles are fractions of a turn (2 pi) here: the angle k that
\* get_angle_from_center returns in eighths is <<k, 8>>, and a quantity the
\* code measures against pi (the normalized difference of the Spiral, the
\* thickness of the RotatingPlane) is a fraction of half a turn.
HalfTurn == <<1, 2>>

\* SpiralEffect.__init__(led_count, tree_model=..., speed=..., rotations=...,
\* width=...) with the heights and the angles the model returned
SpiralInit(led_count, heights, angles, speed, rotations, width) ==
    [EffectInit("Spiral", led_count) EXCEPT
       !.heights = heights, !.angles = angles, !.speed = speed,
       !.rotations = rotations, !.width = width]

\* RotatingPlaneEffect.__init__(led_count, tree_model=..., speed=...,
\* thickness=...); thickness is kept as thickness / pi
RotatingPlaneInit(led_count, heights, angles, speed, thickness) ==
    [EffectInit("RotatingPlane", led_count) EXCEPT
       !.heights = heights, !.angles = angles, !.speed = speed,
       !.width = thickness]

\* (time * self.speed * 2 * np.pi) % (2 * np.pi), in turns
rotation_offset(self) ==
    <<(get_time(self) * self.speed[1]) % self.speed[2], self.speed[2]>>

\* spiral.py line 50: (heights[i] * rotations * 2 pi + rotation_offset)
\* % (2 pi), in turns; rotations is a whole number
expected_angle(self, i) ==
    LET h == self.heights[i]
        o == rotation_offset(self)
        d == h[2] * o[2]
    IN  <<(h[1] * self.rotations * o[2] + o[1] * h[2]) % d, d>>

\* An angular distance that is not folded at pi
angle_diff_Unfolded(angle, target) == FracAbsDiff(angle, target)

\* spiral.py lines 53-55, rotating_plane.py lines 47-49: abs(angle -
\* target), and 2 pi minus it when it is above pi
angle_diff(angle, target) ==
    LET d == FracAbsDiff(angle, target)
    IN  IF FracLess(HalfTurn, d) THEN FracOneMinus(d) ELSE d

\* spiral.py lines 58-65 with norm = angle_diff / pi and the width;
\* rotating_plane.py lines 52-56 with angle_diff and the thickness, both
\* over pi
arc_brightness(norm, width) ==
    IF FracLess(norm, width)
    THEN FracSquare(FracOneMinus(FracDiv(norm, width)))
    ELSE <<0, 1>>

\* SpiralEffect.update(dt) and RotatingPlaneEffect.update(dt): the target
\* angle of LED k is the expected angle of its height in the spiral, or the
\* angle of the plane; the hue is the height of the LED
ArcUpdate(self, dt) ==
    LET Target(k) == IF self.kind = "Spiral" THEN expected_angle(self, k)
                     ELSE rotation_offset(self)
        Shade(k) ==
            LET d == angle_diff(<<self.angles[k], TurnParts>>, Target(k))
            IN  [target |-> Target(k), diff |-> d,
                 brightness |-> arc_brightness(<<2 * d[1], d[2]>>, self.width)]
        Colour(k) ==
            hsv_to_rgb_v(self.heights[k][1], self.heights[k][2],
                         Shade(k).brightness[1], Shade(k).brightness[2])
        Loop[k \in 0..self.led_count] ==
            IF k = 0 THEN self ELSE set_pixel(Loop[k - 1], k - 1, Colour(k))
    IN  [Loop[self.led_count] EXCEPT
           !.shade = [k \in 1..self.led_count |-> Shade(k)]]

\* The abstract Effect.update(dt), as each subclass overrides it; the
\* model an effect was built against is the one model of the process
update(self, dt) ==
    LET s == Invoked(self, "update", dt)
    IN  CASE self.kind = "Rainbow"        -> RainbowUpdate(s, dt)
          [] self.kind = "HeightGradient" -> GradientUpdate(s, dt)
          [] self.kind = "SpherePulse"    -> SpherePulseUpdate(s, tree, dt)
          [] self.kind = "RisingWave"     -> RisingWaveUpdate(s, dt)
          [] self.kind = "Spiral"         -> ArcUpdate(s, dt)
          [] self.kind = "RotatingPlane"  -> ArcUpdate(s, dt)
          [] OTHER                        -> s

(* ---------------------------- construction ---------------------------- *)

SpatialKinds ==
    {"HeightGradient", "RisingWave", "Spiral", "RotatingPlane", "SpherePulse"}

\* The speed main.py gives a SpherePulse, and a pulse_width and a
\* num_pulses that are powers of two
PulseSpeed == <<1, 2>>
PulseWidth == <<1, 4>>
NumPulses == 2

\* What main.py passes to the RisingWave (speed=0.3), the Spiral (speed=0.2)
\* and the RotatingPlane (speed=0.3), with the defaults of the constructors.
\* The thickness of the plane, 0.15, is kept as thickness / pi, which lies
\* between 1/21 and 1/20: at whole seconds the plane stands at tenths of a
\* turn and the LEDs at eighths, so every value below 1/20 lights the same
\* LEDs, those the plane passes through.
MainWave == [speed |-> <<3, 10>>, wave_height |-> <<1, 5>>, hue |-> <<1, 2>>]
MainSpiral == [speed |-> <<1, 5>>, rotations |-> 3, width |-> <<3, 20>>]
MainPlane == [speed |-> <<3, 10>>, thickness |-> <<1, 21>>]

\* A constructor that skips the test for a model and keeps what
\* Effect.__init__ made
new_effect_KeepsBase(kind, led_count, tree_model, draws) ==
    IF kind = "Rainbow"
    THEN [exc |-> NoExc, self |-> RainbowInit(led_count, <<1, 1>>)]
    ELSE IF tree_model.status = "none"
    THEN [exc |-> NoExc, self |-> EffectInit(kind, led_count)]
    ELSE CASE kind = "HeightGradient" ->
                [exc |-> NoExc,
                 self |-> HeightGradientInit(led_count,
                              get_height_normalized(tree_model), <<>>, TRUE,
                              <<1, 4>>)]
           [] kind = "SpherePulse" ->
                [exc |-> NoExc,
                 self |-> SpherePulseInit(led_count, tree_model, PulseSpeed,
                                          PulseWidth, draws)]

\* cls(led_count, tree_model=tree_model, ...) for the class of the given
\* kind: the instance, or the exception that left the constructor.  A model
\* of status "none" stands for tree_model=None.  Every spatial class raises
\* ValueError after super().__init__() when the model is None; with a model
\* each reads its per-LED features from the model it is given.
new_effect(kind, led_count, tree_model, draws) ==
    IF kind = "Rainbow"
    THEN [exc |-> NoExc, self |-> RainbowInit(led_count, <<1, 1>>)]
    ELSE IF tree_model.status = "none"
    THEN [exc |-> "ValueError", self |-> NoEffect]
    ELSE CASE kind = "HeightGradient" ->
                [exc |-> NoExc,
                 self |-> HeightGradientInit(led_count,
                              get_height_normalized(tree_model), <<>>, TRUE,
                              <<1, 4>>)]
           [] kind = "SpherePulse" ->
                [exc |-> NoExc,
                 self |-> SpherePulseInit(led_count, tree_model, PulseSpeed,
                                          PulseWidth, draws)]
           [] kind = "RisingWave" ->
                [exc |-> NoExc,
                 self |-> RisingWaveInit(led_count,
                              get_height_normalized(tree_model),
                              MainWave.speed, MainWave.wave_height,
                              MainWave.hue)]
           [] kind = "Spiral" ->
                [exc |-> NoExc,
                 self |-> SpiralInit(led_count,
                              get_height_normalized(tree_model),
                              get_angle_from_center(tree_model),
                              MainSpiral.speed, MainSpiral.rotations,
                              MainSpiral.width)]
           [] kind = "RotatingPlane" ->
                [exc |-> NoExc,
                 self |-> RotatingPlaneInit(led_count,
                              get_height_normalized(tree_model),
                              get_angle_from_center(tree_model),
                              MainPlane.speed, MainPlane.thickness)]

(* ------------------------------ lifecycle ----------------------------- *)

\* A start() that forgets to zero the frame counter
start_KeepsFrameCount(self, t) ==
    on_start([Call(self, "start") EXCEPT
                !.start_time = t, !.current_time = 0, !.running = TRUE,
                !.run = [clean |-> TRUE, n |-> 0, sum |-> 0]])

\* A start() that leaves start_time to the first tick()
start_KeepsStartTime(self, t) ==
    on_start([Call(self, "start") EXCEPT
                !.current_time = 0, !.frame_count = 0, !.running = TRUE,
                !.run = [clean |-> TRUE, n |-> 0, sum |-> 0]])

\* Effect.start() at wall-clock time t
start(self, t) ==
    LET s == [Call(self, "start") EXCEPT
                !.start_time = t, !.current_time = 0, !.frame_count = 0,
                !.running = TRUE,
                !.run = [clean |-> TRUE, n |-> 0, sum |-> 0]]
    IN  on_start(s)

\* A stop() that also blanks the buffer
stop_ClearsPixels(self) ==
    on_stop([Call(self, "stop") EXCEPT
               !.running = FALSE, !.pixels = ZeroPixels(self.led_count),
               !.run = NoRun])

\* Effect.stop()
stop(self) ==
    on_stop([Call(self, "stop") EXCEPT !.running = FALSE, !.run = NoRun])

\* A reset() that also leaves the Running state
reset_Stops(self) ==
    [Call(self, "reset") EXCEPT
       !.pixels = ZeroPixels(self.led_count), !.frame_count = 0,
       !.current_time = 0, !.running = FALSE, !.run = NoRun]

\* A reset() that keeps the elapsed time
reset_KeepsElapsed(self) ==
    [Call(self, "reset") EXCEPT
       !.pixels = ZeroPixels(self.led_count), !.frame_count = 0, !.run = NoRun]

\* Effect.reset()
reset(self) ==
    [Call(self, "reset") EXCEPT
       !.pixels = ZeroPixels(self.led_count), !.frame_count = 0,
       !.current_time = 0, !.run = NoRun]

\* A delta measured from the logical start, not from the last frame
tick_dt_FromStart(self, t) == t - self.start_time

\* dt = current - (self.start_time + self.current_time)
tick_dt(self, t) == t - (self.start_time + self.current_time)

\* An assignment where the code accumulates
tick_advance_Assigns(self, dt) == dt

\* self.current_time += dt
tick_advance(self, dt) == self.current_time + dt

\* A tick() without the early return for an effect that is not running
tick_IgnoresRunning(self, t) ==
    LET s0 == IF self.start_time = None
              THEN [self EXCEPT !.start_time = t] ELSE self
        dt == tick_dt(s0, t)
    IN  update([Call(s0, "tick") EXCEPT
                  !.current_time = tick_advance(s0, dt),
                  !.frame_count = @ + 1], dt)

\* Effect.tick() at wall-clock time t
tick(self, t) ==
    IF ~self.running
    THEN Call(self, "tick")
    ELSE LET s0 == IF self.start_time = None
                   THEN [self EXCEPT !.start_time = t] ELSE self
             dt == tick_dt(s0, t)
             s1 == [Call(s0, "tick") EXCEPT
                      !.current_time = tick_advance(s0, dt),
                      !.frame_count = @ + 1,
                      !.run = IF @.clean
                              THEN [clean |-> TRUE, n |-> @.n + 1, sum |-> @.sum + dt]
                              ELSE @]
         IN  update(s1, dt)

\* An accessor that shifts the z column in place (z_coords -= z_min on the
\* view) before it computes
Accessed_InPlace(self, name, point) ==
    LET moved == [self EXCEPT !.coordinates =
                    [i \in 1..Len(self.coordinates) |->
                        [self.coordinates[i] EXCEPT ![3] = @ - self.bounds[3][1]]]]
    IN  [model |-> moved,
         value |-> CASE name = "get_height_normalized" -> get_height_normalized(self)
                     [] name = "get_angle_from_center" -> get_angle_from_center(self)
                     [] name = "get_radial_distance" -> get_radial_distance(self)
                     [] name = "get_distances_from_point" ->
                            get_distances_from_point(self, point)]

\* A call of an accessor of the model: the value it returns and the model
\* it leaves.  Lines 144-157 and 213-248 read coordinates, bounds and
\* center into new arrays and assign to none of them.  point is the
\* argument of get_distances_from_point.
Accessed(self, name, point) ==
    [model |-> self,
     value |-> CASE name = "get_height_normalized" -> get_height_normalized(self)
                 [] name = "get_angle_from_center" -> get_angle_from_center(self)
                 [] name = "get_radial_distance" -> get_radial_distance(self)
                 [] name = "get_distances_from_point" ->
                        get_distances_from_point(self, point)]

\* The model after a method has left the effect as `after`: of the effects
\* built here only SpherePulseEffect.update (line 69) calls into the model
\* it holds, once for every pulse; the last hook logged tells whether update
\* ran
model_after(after, tree_model) ==
    IF /\ after.kind = "SpherePulse"
       /\ after.hooks # <<>>
       /\ after.hooks[Len(after.hooks)].hook = "update"
    THEN LET Loop[p \in 0..after.num_pulses] ==
                 IF p = 0 THEN tree_model
                 ELSE Accessed(Loop[p - 1], "get_distances_from_point",
                               get_position(Loop[p - 1], after.origins[p])).model
         IN  Loop[after.num_pulses]
    ELSE tree_model

(* ------------------------------- actions ------------------------------ *)

\* time.time() moves on by a second
TimePasses ==
    /\ now < MaxTime
    /\ now' = now + 1
    /\ UNCHANGED <<effect, tree, source, call, driver>>

Start(e) ==
    /\ effect[e].kind # "none"
    /\ effect' = [effect EXCEPT ![e] = start(@, now)]
    /\ tree' = model_after(effect'[e], tree)
    /\ UNCHANGED <<now, source, call, driver>>

Stop(e) ==
    /\ effect[e].kind # "none"
    /\ effect' = [effect EXCEPT ![e] = stop(@)]
    /\ tree' = model_after(effect'[e], tree)
    /\ UNCHANGED <<now, source, call, driver>>

Reset(e) ==
    /\ effect[e].kind # "none"
    /\ effect' = [effect EXCEPT ![e] = reset(@)]
    /\ tree' = model_after(effect'[e], tree)
    /\ UNCHANGED <<now, source, call, driver>>

Tick(e) ==
    /\ effect[e].kind # "none"
    /\ effect[e].running =>
         /\ effect[e].frame_count < MaxFrames
         /\ tick(effect[e], now).offset <= MaxPhase * RainbowRate * effect[e].speed[2]
    /\ effect' = [effect EXCEPT ![e] = tick(@, now)]
    /\ tree' = model_after(effect'[e], tree)
    /\ UNCHANGED <<now, source, call, driver>>

\* Two Rainbow effects, constructed as main.py does (speed=1.0)
Init ==
    /\ now = 0
    /\ effect = [e \in Inst |-> RainbowInit(LedCount, <<1, 1>>)]
    /\ tree = NoTree
    /\ source = NoSource
    /\ call = NoCall
    /\ driver = NoDriver

(* --------------------- construction of the TreeModel ------------------ *)

Header == <<Text, Text, Text>>

\* The rows a coordinate file is made of: a blank line, a header, a row of
\* two numbers, a row with a cell that is no number, points, a row of four
Rows ==
    {<<>>, Header, <<0, 0>>, <<0, 0, Text>>,
     <<0, 0, 0>>, <<1, 0, 1>>, <<0, 1, 2>>, <<1, 1, 1, 1>>}

Files == UNION {[1..n -> Rows] : n \in 0..MaxRows}

Sources ==
    {[csv_path |-> p, rows |-> <<>>, led_count |-> c] :
        p \in {"none", "missing"}, c \in 1..MaxCount}
    \cup {[csv_path |-> "file", rows |-> f, led_count |-> c] :
            f \in Files, c \in 1..MaxCount}

\* main.py line 99: TreeModel(csv_path=args.coords, led_count=config.led_count)
BuildTree ==
    \E src \in Sources :
        /\ tree.status = "none"
        /\ tree' = TreeModelInit(src)
        /\ source' = src
        /\ UNCHANGED <<now, effect, call, driver>>

InitTree ==
    /\ now = 0
    /\ effect = [e \in Inst |-> NoEffect]
    /\ tree = NoTree
    /\ source = NoSource
    /\ call = NoCall
    /\ driver = NoDriver

NextTree == BuildTree

SpecTree == InitTree /\ [][NextTree]_vars

(* ------------------- a HeightGradient over a TreeModel ---------------- *)

Blue == <<0, 0, 255>>
Green == <<0, 255, 0>>
Red == <<255, 0, 0>>

\* colors=None (the rainbow gradient) and lists of one, two and three colours
ColorLists == {<<>>, <<Red>>, <<Blue, Red>>, <<Blue, Green, Red>>}

Points == {<<0, 0, 0>>, <<1, 0, 1>>, <<0, 1, 2>>}

\* Three points read from a file, or the fallback line of one to three LEDs:
\* every normalized height is 0, 1/2 or 1
GradientSources ==
    {[csv_path |-> "file", rows |-> f, led_count |-> 3] : f \in [1..3 -> Points]}
    \cup {[csv_path |-> "none", rows |-> <<>>, led_count |-> c] : c \in 1..3}

\* The speed given to an animated gradient: a quarter turn a second
GradientSpeed == <<1, 4>>

\* main.py lines 99 and 113-118: the model, then the effect built on it
InitGradient ==
    /\ now = 0
    /\ \E src \in GradientSources :
          /\ source = src
          /\ tree = TreeModelInit(src)
    /\ call = NoCall
    /\ driver = NoDriver
    /\ \E colors \in ColorLists : \E animated \in BOOLEAN :
          effect = [e \in Inst |->
                      IF e = 1
                      THEN HeightGradientInit(tree.led_count,
                                              get_height_normalized(tree),
                                              colors, animated, GradientSpeed)
                      ELSE NoEffect]

(* ----------------------- the colour helpers alone --------------------- *)

\* Positions handed to wheel: the documented 0..255 and a period either side
WheelInputs == (0 - WheelSize)..(2 * WheelSize - 1)

\* Offsets a Rainbow reaches: two turns of the wheel
Offsets == 0..(2 * WheelSize)

\* wheel(pos).  A helper's result depends on its arguments alone, so each
\* behaviour makes one call
CallWheel ==
    \E pos \in WheelInputs :
        /\ call.name = "none"
        /\ call' = [name |-> "wheel", args |-> <<pos>>, result |-> wheel(pos),
                    n |-> 1]
        /\ UNCHANGED <<now, effect, tree, source, driver>>

\* rainbow.py lines 30-32: the colour of LED i of n at a given offset
CallRainbowPixel ==
    \E n \in 1..LedCount : \E i \in 0..(n - 1) : \E off \in Offsets :
        /\ call.name = "none"
        /\ call' = [name |-> "rainbow_pixel", args |-> <<i, n, off>>,
                    result |-> wheel(pixel_index(i, n, off, 1)), n |-> 1]
        /\ UNCHANGED <<now, effect, tree, source, driver>>

\* 8-bit colours and ratios num/den handed to blend_colors: below 0, 0,
\* between, 1 and above 1, over denominators that are and are not powers of 2
Palette ==
    {<<0, 0, 0>>, <<3, 29, 255>>, <<29, 29, 29>>, <<255, 0, 128>>,
     <<255, 255, 255>>}
RatioDens == {1, 2, 4, 7, 10}
Ratios == {<<n, d>> \in ((0 - 1)..11) \X RatioDens : n <= d + 1}

\* blend_colors(color1, color2, num / den)
CallBlend ==
    \E color1, color2 \in Palette : \E ratio \in Ratios :
        /\ call.name = "none"
        /\ call' = [name |-> "blend_colors",
                    args |-> <<color1, color2, ratio[1], ratio[2]>>,
                    result |-> blend_colors(color1, color2, ratio[1], ratio[2]),
                    n |-> 1]
        /\ UNCHANGED <<now, effect, tree, source, driver>>

NextColor ==
    \/ CallWheel
    \/ CallRainbowPixel
    \/ CallBlend

SpecColor == InitTree /\ [][NextColor]_vars

(* -------------------- the buffer of one effect ----------------------- *)

\* The buffer utilities run at most MaxCalls times.
MaxCalls == 2

\* An effect with an interior LED
BufferLeds == LedCount + 1

\* Colours written by set_pixel and set_all_pixels
Paints == {<<0, 0, 0>>, <<3, 29, 255>>, <<255, 6, 128>>}

\* Amounts in [0, 1] handed to fade_to_black and blur: 0, 0.3, 0.75, 1
Amounts == {<<0, 1>>, <<3, 10>>, <<3, 4>>, <<1, 1>>}

\* The call record of a buffer utility
Utility(name, args) ==
    [name |-> name, args |-> args, result |-> <<>>, n |-> call.n + 1]

SetPixel(e) ==
    \E index \in (0 - 1)..effect[e].led_count : \E rgb \in Paints :
        /\ effect[e].kind # "none"
        /\ call.n < MaxCalls
        /\ effect' = [effect EXCEPT
                        ![e] = set_pixel(Call(@, "set_pixel"), index, rgb)]
        /\ call' = Utility("set_pixel", <<index, rgb>>)
        /\ UNCHANGED <<now, tree, source, driver>>

SetAllPixels(e) ==
    \E rgb \in Paints :
        /\ effect[e].kind # "none"
        /\ call.n < MaxCalls
        /\ effect' = [effect EXCEPT
                        ![e] = set_all_pixels(Call(@, "set_all_pixels"), rgb)]
        /\ call' = Utility("set_all_pixels", <<rgb>>)
        /\ UNCHANGED <<now, tree, source, driver>>

Clear(e) ==
    /\ effect[e].kind # "none"
    /\ call.n < MaxCalls
    /\ effect' = [effect EXCEPT ![e] = clear(Call(@, "clear"))]
    /\ call' = Utility("clear", <<>>)
    /\ UNCHANGED <<now, tree, source, driver>>

FadeToBlack(e) ==
    \E amount \in Amounts :
        /\ effect[e].kind # "none"
        /\ call.n < MaxCalls
        /\ effect' = [effect EXCEPT
                        ![e] = fade_to_black(Call(@, "fade_to_black"),
                                             amount[1], amount[2])]
        /\ call' = Utility("fade_to_black", amount)
        /\ UNCHANGED <<now, tree, source, driver>>

Blur(e) ==
    \E amount \in Amounts :
        /\ effect[e].kind # "none"
        /\ call.n < MaxCalls
        /\ effect' = [effect EXCEPT
                        ![e] = blur(Call(@, "blur"), amount[1], amount[2])]
        /\ call' = Utility("blur", amount)
        /\ UNCHANGED <<now, tree, source, driver>>

\* A Rainbow of BufferLeds LEDs
InitBuffer ==
    /\ now = 0
    /\ effect = [e \in Inst |->
                   IF e = 1 THEN RainbowInit(BufferLeds, <<1, 1>>) ELSE NoEffect]
    /\ tree = NoTree
    /\ source = NoSource
    /\ call = NoCall
    /\ driver = NoDriver

\* The clock stands still here: what a tick draws as time passes is the
\* matter of Spec
NextBuffer ==
    \/ Start(1)
    \/ Stop(1)
    \/ Reset(1)
    \/ Tick(1)
    \/ SetPixel(1)
    \/ SetAllPixels(1)
    \/ Clear(1)
    \/ FadeToBlack(1)
    \/ Blur(1)

SpecBuffer == InitBuffer /\ [][NextBuffer]_vars

(* ------------------- effects built against a model -------------------- *)

\* Models whose points lie on one axis: fallbacks of one to three LEDs and
\* files of one to three rows under a header
SceneFiles ==
    {<<Header, <<0, 0, 1>>>>,
     <<Header, <<0, 0, 1>>, <<0, 0, 3>>>>,
     <<Header, <<2, 0, 0>>, <<0, 0, 0>>>>,
     <<Header, <<0, 2, 1>>, <<0, 0, 1>>, <<0, 4, 1>>>>}

SceneSources ==
    {[csv_path |-> "none", rows |-> <<>>, led_count |-> c] : c \in 1..3}
    \cup {[csv_path |-> "file", rows |-> f, led_count |-> 2] : f \in SceneFiles}

Accessors ==
    {"get_height_normalized", "get_angle_from_center", "get_radial_distance"}

\* main.py lines 112-148: the effect is constructed with the LED count of
\* the model, with the model or (given = FALSE) with tree_model=None.  A
\* constructor that raises leaves no instance behind.
Construct(e) ==
    \E kind \in SpatialKinds \cup {"Rainbow"} : \E given \in BOOLEAN :
    \E draws \in [1..NumPulses -> 0..(tree.led_count - 1)] :
        LET made == new_effect(kind, tree.led_count,
                               IF given THEN tree ELSE NoTree, draws)
        IN  /\ effect[e].kind = "none"
            /\ given => kind \in {"HeightGradient", "SpherePulse"}
            /\ effect' = IF made.exc = NoExc
                         THEN [effect EXCEPT ![e] = made.self]
                         ELSE effect
            /\ call' = [name |-> "new", args |-> <<kind, given>>,
                        result |-> made.exc, n |-> 0]
            /\ UNCHANGED <<now, tree, source, driver>>

\* One call of a derived-feature accessor of the model; n counts the calls
\* of this accessor in succession
Access ==
    \E name \in Accessors :
        LET n == IF call.name = name THEN call.n + 1 ELSE 1
        IN  /\ tree.status = "ok"
            /\ n <= MaxCalls
            /\ tree' = Accessed(tree, name, <<>>).model
            /\ call' = [name |-> name, args |-> <<>>,
                        result |-> Accessed(tree, name, <<>>).value,
                        n |-> n]
            /\ UNCHANGED <<now, effect, source, driver>>

InitScene ==
    /\ now = 0
    /\ \E src \in SceneSources :
          /\ source = src
          /\ tree = TreeModelInit(src)
    /\ effect = [e \in Inst |-> NoEffect]
    /\ call = NoCall
    /\ driver = NoDriver

NextScene ==
    \/ Construct(1)
    \/ Access
    \/ TimePasses
    \/ Start(1)
    \/ Stop(1)
    \/ Reset(1)
    \/ Tick(1)

SpecScene == InitScene /\ [][NextScene]_vars

(* ------------------ a SpherePulse of overlapping pulses --------------- *)

\* Four pulses have the hues 0, 1/4, 1/2 and 3/4, which share channels; with
\* a pulse_width of 1/2 two of them reach the same LED of a fallback of
\* three LEDs in the same frame
PulseCount == 4
WidePulse == <<1, 2>>
PulseLeds == 3

\* The LEDs np.random.randint may pick for the four origins, the third and
\* the fourth pulse starting where the first and the second do
PulseDraws ==
    {d \in [1..PulseCount -> 0..(PulseLeds - 1)] : d[3] = d[1] /\ d[4] = d[2]}

InitPulse ==
    /\ now = 0
    /\ source = [csv_path |-> "none", rows |-> <<>>, led_count |-> PulseLeds]
    /\ tree = TreeModelInit(source)
    /\ \E draws \in PulseDraws :
          effect = [e \in Inst |->
                      IF e = 1
                      THEN SpherePulseInit(tree.led_count, tree, PulseSpeed,
                                           WidePulse, draws)
                      ELSE NoEffect]
    /\ call = NoCall
    /\ driver = NoDriver

\* The effect is driven through its lifecycle and painted in between
NextPulse ==
    \/ TimePasses
    \/ Start(1)
    \/ Stop(1)
    \/ Reset(1)
    \/ Tick(1)
    \/ SetAllPixels(1)

SpecPulse == InitPulse /\ [][NextPulse]_vars

(* ----------------------------- a RisingWave --------------------------- *)

\* A file of four points whose normalized heights are 0, 1/2, 4/5 and 1
WaveFile ==
    <<Header, <<0, 0, 0>>, <<0, 0, 5>>, <<0, 0, 8>>, <<0, 0, 10>>>>

\* The speed main.py passes (0.3) and one that brings the wave to 1/2
WaveSpeeds == {<<3, 10>>, <<1, 2>>}

\* The default wave_height (0.2) and a wider one
WaveHeights == {<<1, 5>>, <<1, 2>>}

\* The default hue (0.5)
WaveHue == <<1, 2>>

InitWave ==
    /\ now = 0
    /\ source = [csv_path |-> "file", rows |-> WaveFile, led_count |-> LedCount]
    /\ tree = TreeModelInit(source)
    /\ \E speed \in WaveSpeeds : \E wave_height \in WaveHeights :
          effect = [e \in Inst |->
                      IF e = 1
                      THEN RisingWaveInit(tree.led_count,
                                          get_height_normalized(tree),
                                          speed, wave_height, WaveHue)
                      ELSE NoEffect]
    /\ call = NoCall
    /\ driver = NoDriver

(* ---------------------- a Spiral, a RotatingPlane --------------------- *)

\* Five points: four around the center at the angles 0, 1/4, 1/2 and 3/4
\* of a turn and one on the center, at the heights 0, 1/4, 1/2, 3/4 and 1
ArcFile ==
    <<Header, <<2, 1, 0>>, <<1, 2, 1>>, <<0, 1, 2>>, <<1, 0, 3>>, <<1, 1, 4>>>>

\* The speeds main.py passes (0.2 for the Spiral, 0.3 for the plane) and the
\* default of the Spiral (0.5)
ArcSpeeds == {<<1, 5>>, <<3, 10>>, <<1, 2>>}

\* The default rotations of the Spiral (3.0)
SpiralRotations == 3

\* The default width of the Spiral (0.15), and a thickness of pi / 4
SpiralWidth == <<3, 20>>
PlaneThickness == <<1, 4>>

InitArc ==
    /\ now = 0
    /\ source = [csv_path |-> "file", rows |-> ArcFile, led_count |-> LedCount]
    /\ tree = TreeModelInit(source)
    /\ \E speed \in ArcSpeeds : \E kind \in {"Spiral", "RotatingPlane"} :
          effect = [e \in Inst |->
                      IF e # 1 THEN NoEffect
                      ELSE IF kind = "Spiral"
                      THEN SpiralInit(tree.led_count, get_height_normalized(tree),
                                      get_angle_from_center(tree), speed,
                                      SpiralRotations, SpiralWidth)
                      ELSE RotatingPlaneInit(tree.led_count,
                                             get_height_normalized(tree),
                                             get_angle_from_center(tree), speed,
                                             PlaneThickness)]
    /\ call = NoCall
    /\ driver = NoDriver

(* ------------------------- the main application --------------------- *)

\* A count taken from the configuration instead of the model
main_led_count_Configured(tree_model, config_led_count) == config_led_count

\* main.py lines 114-144: the first argument of every constructor is
\* tree_model.led_count, read after TreeModel(...) returned
main_led_count(tree_model, config_led_count) == tree_model.led_count

\* --coords: no file, a file of as many rows as configured, of fewer and of
\* more, a file under which nothing parses, an empty file and a file whose
\* only row has two numbers
MainFiles == SceneFiles \cup {<<Header>>, <<>>, <<<<0, 0>>>>}

\* config.led_count is 2 or 3
MainSources ==
    {[csv_path |-> "none", rows |-> <<>>, led_count |-> c] : c \in 2..3}
    \cup {[csv_path |-> "file", rows |-> f, led_count |-> c] :
            f \in MainFiles, c \in 2..3}

\* main.py lines 112-155: effect_map[args.effect](), reached when
\* TreeModel(...) on line 99 has returned
MainEffect(e) ==
    \E kind \in SpatialKinds \cup {"Rainbow"} :
        LET led_count == main_led_count(tree, source.led_count)
        IN  \E draws \in [1..NumPulses -> 0..(led_count - 1)] :
              LET made == new_effect(kind, led_count, tree, draws)
              IN  /\ tree.status = "ok"
                  /\ effect[e].kind = "none"
                  /\ effect' = [effect EXCEPT ![e] = made.self]
                  /\ call' = [name |-> "main", args |-> <<kind>>,
                              result |-> made.exc, n |-> 0]
                  /\ UNCHANGED <<now, tree, source, driver>>

InitMain ==
    /\ now = 0
    /\ \E src \in MainSources :
          /\ source = src
          /\ tree = TreeModelInit(src)
    /\ effect = [e \in Inst |-> NoEffect]
    /\ call = NoCall
    /\ driver = NoDriver

\* The effect main built is started, ticked and stopped as run_effect does
NextMain ==
    \/ MainEffect(1)
    \/ TimePasses
    \/ Start(1)
    \/ Tick(1)
    \/ Stop(1)

SpecMain == InitMain /\ [][NextMain]_vars

(* --------------------------- the DDP sink ----------------------------- *)

\* wled_client.py line 175: max_pixels_per_packet
MaxPixelsPerPacket == 480

\* A packet whose start channel counts pixels, not channels
Packet_ChannelPerPixel(num_pixels, start_channel, offset) ==
    LET end == Min(offset + MaxPixelsPerPacket, num_pixels)
    IN  [first |-> offset, end |-> end, size |-> (end - offset) * 3,
         flags |-> IF end >= num_pixels THEN 1 ELSE 0,
         channel |-> start_channel + offset]

\* Lines 178-199: the packet built for the chunk pixels[offset:end]: the
\* push flag, the start channel and the data length of its header, and the
\* pixels it carries (first up to end, end not included)
Packet(num_pixels, start_channel, offset) ==
    LET end == Min(offset + MaxPixelsPerPacket, num_pixels)
    IN  [first |-> offset, end |-> end, size |-> (end - offset) * 3,
         flags |-> IF end >= num_pixels THEN 1 ELSE 0,
         channel |-> start_channel + offset * 3]

\* struct.pack('!...L', ..., channel) raises struct.error for a negative
\* channel
Packable(packet) == packet.channel >= 0

\* WLEDClient.stream_pixels_ddp(pixels, start_channel) for an array of
\* num_pixels rows; shaped tells whether the array has the shape (n, 3), and
\* fails is the number of the sendto call that raises (0: none does).  The
\* packets are built and sent one by one; the first exception ends the try
\* block and the call returns False (lines 206-208).
stream_pixels_ddp(num_pixels, start_channel, shaped, fails) ==
    IF ~shaped
    THEN [sent |-> <<>>, value |-> FALSE]
    ELSE LET count == (num_pixels + MaxPixelsPerPacket - 1) \div MaxPixelsPerPacket
             all == [k \in 1..count |->
                        Packet(num_pixels, start_channel,
                               (k - 1) * MaxPixelsPerPacket)]
             Raises(k) == ~Packable(all[k]) \/ k = fails
         IN  IF \E k \in 1..count : Raises(k)
             THEN LET k == CHOOSE j \in 1..count :
                               Raises(j) /\ \A i \in 1..(j - 1) : ~Raises(i)
                  IN  [sent |-> SubSeq(all, 1, k - 1), value |-> FALSE]
             ELSE [sent |-> all, value |-> TRUE]

\* Frames of one packet, of exactly one or two packets, and of one pixel more
FrameSizes == {0, 1, 2, 479, 480, 481, 959, 960, 961, 1441}

StartChannels == {0 - 3, 0, 3, 1440}

\* One call of stream_pixels_ddp
CallStream ==
    \E num_pixels \in FrameSizes : \E start_channel \in StartChannels :
    \E shaped \in BOOLEAN : \E fails \in 0..4 :
        /\ call.name = "none"
        /\ call' = [name |-> "stream_pixels_ddp",
                    args |-> <<num_pixels, start_channel, shaped, fails>>,
                    result |-> stream_pixels_ddp(num_pixels, start_channel,
                                                 shaped, fails),
                    n |-> 1]
        /\ UNCHANGED <<now, effect, tree, source, driver>>

NextStream == CallStream

SpecStream == InitTree /\ [][NextStream]_vars

(* ------------------------- the driving loop --------------------------- *)

\* effect.fps of the effect that is driven: one frame per second of the clock
Fps == 1

\* The duration argument of run_effect: None, or a number of seconds
Durations == {None, 0, 1, 2}

\* Where the loop goes after a failed transmission: back to the hand-off
pc_after_stream_Retries(ok) == IF ok THEN "pace" ELSE "stream"

\* main.py lines 56-58: the value stream_pixels returns is dropped, and the
\* loop goes on to count and pace the frame
pc_after_stream(ok) == "pace"

\* A sleep of the remainder of the budget of this frame alone
sleep_time_PerFrame(self, t) == <<1 - (t - self.began) * Fps, Fps>>

\* main.py lines 61-63: sleep_time = frame_count / effect.fps - (time.time()
\* - start_time), a fraction over fps
sleep_time(self, t) ==
    <<self.frame_count - (t - self.start_time) * Fps, Fps>>

\* main.py lines 35-44: run_effect(effect, wled_client, duration) up to the
\* try; enable_realtime answers True or False and the answer is dropped
RunEffect ==
    \E duration \in Durations :
        /\ driver.pc = "idle"
        /\ effect[1].kind # "none"
        /\ effect' = [effect EXCEPT ![1] = start(@, now)]
        /\ tree' = model_after(effect'[1], tree)
        /\ driver' = [driver EXCEPT !.pc = "check", !.duration = duration,
                                    !.start_time = now, !.frame_count = 0]
        /\ UNCHANGED <<now, source, call>>

\* Lines 47-50: the top of the loop
CheckDuration ==
    /\ driver.pc = "check"
    /\ driver' = IF driver.duration # None
                    /\ now - driver.start_time >= driver.duration
                 THEN [driver EXCEPT !.pc = "finally", !.left = "duration"]
                 ELSE [driver EXCEPT !.pc = "tick", !.began = now]
    /\ UNCHANGED <<now, effect, tree, source, call>>

\* Line 53: pixels = effect.tick(); tick returns the buffer itself
TickFrame ==
    /\ driver.pc = "tick"
    /\ effect[1].running =>
         /\ effect[1].frame_count < MaxFrames
         /\ tick(effect[1], now).offset <= MaxPhase * RainbowRate * effect[1].speed[2]
    /\ effect' = [effect EXCEPT ![1] = tick(@, now)]
    /\ tree' = model_after(effect'[1], tree)
    /\ driver' = [driver EXCEPT !.pc = "stream"]
    /\ UNCHANGED <<now, source, call>>

\* Lines 56-58: wled_client.stream_pixels(pixels), which answers True or
\* False (wled_client.py 205-208), and frame_count += 1
StreamFrame ==
    \E ok \in BOOLEAN :
        /\ driver.pc = "stream"
        /\ driver' = [driver EXCEPT
                        !.pc = pc_after_stream(ok),
                        !.sent = Append(@, [frame |-> effect[1].frame_count,
                                            pixels |-> effect[1].pixels,
                                            ok |-> ok]),
                        !.frame_count = @ + 1]
        /\ UNCHANGED <<now, effect, tree, source, call>>

\* Lines 61-66: the sleep that keeps the target rate
PaceFrame ==
    LET st == sleep_time(driver, now)
        sleeps == st[1] > 0
    IN  /\ driver.pc = "pace"
        /\ driver' = [driver EXCEPT
                        !.pc = IF sleeps THEN "sleep" ELSE "check",
                        !.wake = IF sleeps THEN now + (st[1] \div st[2]) ELSE @,
                        !.paced = [frame |-> driver.frame_count,
                                   work |-> now - driver.began,
                                   late |-> (driver.began - driver.start_time) * Fps
                                               - (driver.frame_count - 1),
                                   sleep |-> IF sleeps THEN st ELSE <<0, 1>>]]
        /\ UNCHANGED <<now, effect, tree, source, call>>

\* time.sleep returns when the time asked for has passed
WakeUp ==
    /\ driver.pc = "sleep"
    /\ now >= driver.wake
    /\ driver' = [driver EXCEPT !.pc = "check"]
    /\ UNCHANGED <<now, effect, tree, source, call>>

\* Lines 46, 68-69: KeyboardInterrupt is raised in the main thread between
\* any two instructions of the try block
Interrupt ==
    /\ driver.pc \in {"check", "tick", "stream", "pace", "sleep"}
    /\ driver' = [driver EXCEPT !.pc = "finally", !.left = "interrupt"]
    /\ UNCHANGED <<now, effect, tree, source, call>>

\* Lines 70-73: effect.stop() and disable_realtime()
Finally ==
    /\ driver.pc = "finally"
    /\ effect' = [effect EXCEPT ![1] = stop(@)]
    /\ tree' = model_after(effect'[1], tree)
    /\ driver' = [driver EXCEPT !.pc = "done", !.stops = @ + 1]
    /\ UNCHANGED <<now, source, call>>

NextRun ==
    \/ TimePasses
    \/ RunEffect
    \/ CheckDuration
    \/ TickFrame
    \/ StreamFrame
    \/ PaceFrame
    \/ WakeUp
    \/ Interrupt
    \/ Finally

\* main.py lines 143-158 for the rainbow: the effect is constructed and run
SpecRun == Init /\ [][NextRun]_vars

\* One effect instance driven through its public methods
Next ==
    \/ TimePasses
    \/ Start(1)
    \/ Stop(1)
    \/ Reset(1)
    \/ Tick(1)

Spec == Init /\ [][Next]_vars

SpecGradient == InitGradient /\ [][Next]_vars

SpecWave == InitWave /\ [][Next]_vars

SpecArc == InitArc /\ [][Next]_vars

\* Two effect instances of the same class and parameters, driven independently
NextPair ==
    \/ TimePasses
    \/ \E e \in Inst : Start(e)
    \/ \E e \in Inst : Stop(e)
    \/ \E e \in Inst : Reset(e)
    \/ \E e \in Inst : Tick(e)

SpecPair == Init /\ [][NextPair]_vars

(* ------------------------- lifecycle properties ----------------------- *)

UpdateCall(dt) == [hook |-> "update", dt |-> dt]

\* The last call on e was a tick() that ran update
Ticked(e) == effect[e].last = "tick" /\ effect[e].hooks # <<>>

\* C1: a tick() of an effect that is not running changes nothing: the buffer
\* it returns, frame_count and current_time are as before and update is not
\* invoked, whatever the wall clock shows.
C1_IdleTickIsNoOp ==
    [][\A e \in Inst :
         (Tick(e) /\ ~effect[e].running) =>
            /\ effect'[e].pixels = effect[e].pixels
            /\ effect'[e].hooks = <<>>
            /\ effect'[e].frame_count = effect[e].frame_count
            /\ effect'[e].current_time = effect[e].current_time
            /\ ~effect'[e].running]_vars

\* A stopped effect with a lit buffer was ticked seconds after its last frame
C1_Witness ==
    /\ effect[1].last = "tick" /\ effect[1].hooks = <<>>
    /\ ~effect[1].running
    /\ effect[1].frame_count > 0
    /\ effect[1].pixels # ZeroPixels(LedCount)
    /\ now > effect[1].start_time + effect[1].current_time

\* C2: a tick() of a running effect adds 1 to frame_count, measures
\* delta = now - (start_time + current_time), adds it to current_time and
\* invokes update once, with that delta; after start() and k ticks
\* frame_count is k and current_time is the sum of the k deltas.
C2_RunningTickAdvances ==
    [][\A e \in Inst :
         (Tick(e) /\ effect[e].running) =>
            LET delta == now - (effect[e].start_time + effect[e].current_time)
            IN  /\ effect'[e].frame_count = effect[e].frame_count + 1
                /\ effect'[e].current_time = effect[e].current_time + delta
                /\ effect'[e].hooks = <<UpdateCall(delta)>>
                /\ effect'[e].run.clean =>
                     /\ effect'[e].frame_count = effect'[e].run.n
                     /\ effect'[e].current_time = effect'[e].run.sum]_vars

\* start() and two ticks, the second after a delta of two seconds
C2_Witness ==
    /\ Ticked(1) /\ effect[1].running
    /\ effect[1].run = [clean |-> TRUE, n |-> 2, sum |-> 3]
    /\ effect[1].hooks = <<UpdateCall(2)>>
    /\ effect[1].frame_count = 2

\* C3: no tick() lowers current_time, however the ticks are spaced.
C3_ElapsedNeverDecreases ==
    [][\A e \in Inst :
         Tick(e) => effect'[e].current_time >= effect[e].current_time]_vars

\* Two frames, the first after two seconds and the second after one more
C3_Witness ==
    /\ Ticked(1) /\ effect[1].running
    /\ effect[1].frame_count = 2
    /\ effect[1].current_time = 3
    /\ effect[1].hooks = <<UpdateCall(1)>>

\* C4: start(), in any state, leaves the effect running with current_time
\* and frame_count 0 and start_time the current wall-clock time, and invokes
\* on_start once.
C4_StartResets ==
    [][\A e \in Inst :
         Start(e) =>
            /\ effect'[e].running
            /\ effect'[e].current_time = 0
            /\ effect'[e].frame_count = 0
            /\ effect'[e].start_time = now
            /\ effect'[e].hooks = <<[hook |-> "on_start", dt |-> 0]>>]_vars

\* A start() of an effect that has rendered frames before
C4_Witness ==
    /\ effect[1].last = "start" /\ effect[1].running
    /\ effect[1].start_time = now /\ now > 1
    /\ effect[1].offset > 0
    /\ effect[1].frame_count = 0 /\ effect[1].current_time = 0

\* C5: stop() leaves the effect idle, invokes on_stop once and changes
\* neither the buffer nor frame_count nor current_time; from then on the
\* effect stays idle, and its ticks change nothing, until a start().
C5_StopKeepsState ==
    [][\A e \in Inst :
         /\ Stop(e) =>
              /\ ~effect'[e].running
              /\ effect'[e].hooks = <<[hook |-> "on_stop", dt |-> 0]>>
              /\ effect'[e].pixels = effect[e].pixels
              /\ effect'[e].frame_count = effect[e].frame_count
              /\ effect'[e].current_time = effect[e].current_time
         /\ (~effect[e].running /\ effect'[e].running) => Start(e)
         /\ (~effect[e].running /\ Tick(e)) =>
              /\ effect'[e].pixels = effect[e].pixels
              /\ effect'[e].frame_count = effect[e].frame_count
              /\ effect'[e].current_time = effect[e].current_time]_vars

\* A stop() after two frames, the buffer still lit
C5_Witness ==
    /\ effect[1].last = "stop" /\ ~effect[1].running
    /\ effect[1].frame_count = 2 /\ effect[1].current_time > 0
    /\ effect[1].pixels # ZeroPixels(LedCount)

\* C6: reset() zeroes every channel of the buffer, frame_count and
\* current_time, and leaves running as it was.
C6_ResetZeroes ==
    [][\A e \in Inst :
         Reset(e) =>
            /\ \A k \in 1..effect[e].led_count : \A c \in 1..3 :
                  effect'[e].pixels[k][c] = 0
            /\ Len(effect'[e].pixels) = effect[e].led_count
            /\ effect'[e].frame_count = 0
            /\ effect'[e].current_time = 0
            /\ effect'[e].running = effect[e].running]_vars

\* A reset() of a running effect that had rendered frames
C6_Witness ==
    /\ effect[1].last = "reset" /\ effect[1].running
    /\ effect[1].offset > 0
    /\ now > effect[1].start_time
    /\ effect[1].pixels = ZeroPixels(LedCount)

\* C7: the frame a tick leaves is determined by the parameters and
\* current_time: two effects of the same class and parameters whose last
\* tick left the same current_time show the same buffer.
C7_FrameDependsOnElapsedOnly ==
    \A a \in Inst : \A b \in Inst :
        ( /\ Ticked(a) /\ Ticked(b)
          /\ effect[a].kind = effect[b].kind
          /\ effect[a].speed = effect[b].speed
          /\ effect[a].led_count = effect[b].led_count
          /\ effect[a].current_time = effect[b].current_time )
        => effect[a].pixels = effect[b].pixels

(* ------------------------- gradient properties ------------------------ *)

\* C8: after a tick of a non-animated HeightGradient with two colours or
\* more, the LED at normalized height 0 shows the first colour and the LED
\* at normalized height 1 the last; with <<Blue, Red>> the LED at height 1/2
\* shows (127, 0, 127).
C8_GradientEndpoints ==
    LET g == effect[1]
    IN  (g.kind = "HeightGradient" /\ Ticked(1) /\ ~g.animated /\ Len(g.colors) >= 2)
        => \A k \in 1..g.led_count :
              /\ g.heights[k][1] = 0 => g.pixels[k] = g.colors[1]
              /\ g.heights[k][1] = g.heights[k][2]
                    => g.pixels[k] = g.colors[Len(g.colors)]
              /\ (g.colors = <<Blue, Red>> /\ 2 * g.heights[k][1] = g.heights[k][2])
                    => g.pixels[k] = <<127, 0, 127>>

(* ------------------------ TreeModel properties ------------------------ *)

\* The linear fallback geometry of n LEDs
IsFallback(t) ==
    /\ Len(t.coordinates) = t.led_count
    /\ t.unit = Max(t.led_count - 1, 1)
    /\ \A i \in 1..t.led_count : t.coordinates[i] = <<0, 0, i - 1>>
    /\ t.led_count >= 1

\* A missing file, an empty file, a file of a header row only, or a file
\* with a row that cannot be parsed
BadSource(src) ==
    \/ src.csv_path = "missing"
    \/ /\ src.csv_path = "file"
       /\ \/ src.rows = <<>>
          \/ src.rows = <<Header>>
          \/ \E i \in 2..Len(src.rows) :
                Len(src.rows[i]) >= 3 /\ RowFails(src.rows[i])

\* C9: the construction of a TreeModel from a missing file, an empty file,
\* a header-only file or a file with unparsable rows completes without
\* raising and leaves the linear fallback geometry.
C9_BadSourceFallsBack ==
    (tree.status # "none" /\ BadSource(source))
        => (tree.status = "ok" /\ IsFallback(tree))

\* C10: after construction len(coordinates) = led_count; a load that
\* succeeds with a number of rows other than the configured count sets
\* led_count to the number of rows loaded and keeps exactly those rows.
C10_CountMatchesCoordinates ==
    tree.status # "none" =>
        /\ Len(tree.coordinates) = tree.led_count
        /\ (tree.path = "loaded" /\ Len(ReadRows(source.rows)) # source.led_count)
              => /\ tree.led_count = Len(ReadRows(source.rows))
                 /\ tree.coordinates = ReadRows(source.rows)

\* Two points loaded where three LEDs were configured
C10_Witness ==
    /\ tree.status = "ok" /\ tree.path = "loaded"
    /\ source.led_count = 3
    /\ tree.led_count = 2
    /\ tree.coordinates = <<<<0, 0, 0>>, <<0, 1, 2>>>>

(* ------------------- the fallback model and its heights --------------- *)

\* The fraction h is 0, is 1, lies in [0, 1]
IsZero(h) == h[1] = 0
IsOne(h) == h[1] = h[2]
InUnit(h) == 0 <= h[1] /\ h[1] <= h[2] /\ h[2] > 0

\* A list of heights that lies in [0, 1] and reaches both ends
SpansUnit(hs) ==
    /\ \A i \in 1..Len(hs) : InUnit(hs[i])
    /\ \E i \in 1..Len(hs) : IsZero(hs[i])
    /\ \E i \in 1..Len(hs) : IsOne(hs[i])

\* t.led_count points on the z axis, the i-th at (i-1)/(led_count-1)
OnAxisEvenly(t) ==
    /\ Len(t.coordinates) = t.led_count
    /\ \A i \in 1..t.led_count :
         /\ t.coordinates[i][1] = 0
         /\ t.coordinates[i][2] = 0
         /\ t.coordinates[i][3] * (t.led_count - 1) = (i - 1) * t.unit

\* The z values start at 0 and end at 1
FromZeroToOne(t) ==
    /\ t.coordinates[1][3] = 0
    /\ t.coordinates[t.led_count][3] = t.unit

\* The model was built by _create_linear_fallback and the constructor returned
FellBack(t) == t.status = "ok" /\ t.path = "fallback"

\* C11 as stated: every fallback model of count >= 1 points lies evenly
\* spaced on the z axis from 0 to 1 and its normalized heights have minimum
\* 0 and maximum 1.  A fallback of one point refutes it.
C11_FallbackSpansUnit ==
    (FellBack(tree) /\ tree.led_count >= 1) =>
        /\ OnAxisEvenly(tree)
        /\ FromZeroToOne(tree)
        /\ SpansUnit(get_height_normalized(tree))

\* C11 amended: a fallback model of count >= 2 points lies evenly spaced on
\* the z axis from 0 to 1 and its normalized heights have minimum 0 and
\* maximum 1; a fallback of one point is the origin alone, with height 0.
C11_FallbackEvenlySpaced ==
    (FellBack(tree) /\ tree.led_count >= 1) =>
        /\ OnAxisEvenly(tree)
        /\ tree.led_count >= 2 =>
             /\ FromZeroToOne(tree)
             /\ SpansUnit(get_height_normalized(tree))
        /\ tree.led_count = 1 =>
             /\ tree.coordinates = <<<<0, 0, 0>>>>
             /\ get_height_normalized(tree) = <<<<0, 1>>>>

\* A fallback of three points: heights 0, 1/2 and 1
C11_Witness ==
    /\ FellBack(tree)
    /\ source.csv_path = "none"
    /\ tree.led_count = 3
    /\ get_height_normalized(tree) = <<<<0, 2>>, <<1, 2>>, <<2, 2>>>>

\* The z values of the model's points
Heights(t) == {t.coordinates[i][3] : i \in 1..Len(t.coordinates)}

\* C19: for a model whose z values are not all equal, get_height_normalized
\* returns one value in [0, 1] per LED, the smallest exactly 0 and the
\* largest exactly 1; for a model whose z values are all equal (a single
\* point included) it returns 0 for every LED.
C19_HeightsNormalized ==
    tree.status = "ok" =>
        /\ Len(get_height_normalized(tree)) = tree.led_count
        /\ Cardinality(Heights(tree)) > 1 =>
              /\ SpansUnit(get_height_normalized(tree))
              /\ \A i \in 1..tree.led_count :
                    /\ tree.coordinates[i][3] = SetMin(Heights(tree))
                          => IsZero(get_height_normalized(tree)[i])
                    /\ tree.coordinates[i][3] = SetMax(Heights(tree))
                          => IsOne(get_height_normalized(tree)[i])
        /\ Cardinality(Heights(tree)) = 1 =>
              \A i \in 1..tree.led_count : IsZero(get_height_normalized(tree)[i])

\* A file of two points at z = 1 and z = 2: heights 0 and 1
C19_Witness ==
    /\ tree.status = "ok"
    /\ tree.path = "loaded"
    /\ Heights(tree) = {1, 2}
    /\ get_height_normalized(tree) = <<<<0, 1>>, <<1, 1>>>>

(* ------------------------------ the wheel ----------------------------- *)

\* Every channel of the colour lies in 0..255
IsRGB(c) == Len(c) = 3 /\ \A k \in 1..3 : c[k] \in 0..255

\* C13: for every pos in 0..255, with p = 255 - pos, wheel(pos) is
\* (255-3p, 0, 3p) when p < 85, (0, 3(p-85), 255-3(p-85)) when
\* 85 <= p < 170 and (3(p-170), 255-3(p-170), 0) otherwise, and every
\* channel lies in 0..255.
C13_WheelSegments ==
    (call.name = "wheel" /\ call.args[1] \in 0..255) =>
        LET p == 255 - call.args[1]
        IN  /\ p < 85 => call.result = <<255 - 3 * p, 0, 3 * p>>
            /\ (85 <= p /\ p < 170) =>
                  call.result = <<0, 3 * (p - 85), 255 - 3 * (p - 85)>>
            /\ p >= 170 =>
                  call.result = <<3 * (p - 170), 255 - 3 * (p - 170), 0>>
            /\ IsRGB(call.result)

\* wheel(128), in the middle segment
C13_Witness ==
    /\ call.name = "wheel"
    /\ call.args = <<128>>
    /\ call.result = <<0, 126, 129>>

\* C14 as stated: for every integer pos, wheel(pos + 256) = wheel(pos).
\* wheel does not reduce its argument: wheel(256) is not wheel(0).
C14_WheelPeriodic ==
    call.name = "wheel" => wheel(call.args[1] + 256) = call.result

\* C14 amended: the position Rainbow hands to wheel is reduced modulo 256,
\* so the colour of every LED is periodic in the offset with period 256 and
\* is an 8-bit colour; wheel itself is defined on 0..255 only.
C14_RainbowPixelPeriodic ==
    call.name = "rainbow_pixel" =>
        LET i == call.args[1]
            n == call.args[2]
            off == call.args[3]
        IN  /\ pixel_index(i, n, off, 1) \in 0..255
            /\ wheel(pixel_index(i, n, off + 256, 1)) = call.result
            /\ IsRGB(call.result)

\* LED 1 of 2 at offset 300: position (128 + 300) % 256 = 172
C14_Witness ==
    /\ call.name = "rainbow_pixel"
    /\ call.args = <<1, 2, 300>>
    /\ call.result = wheel(172)

(* ------------------------------ blending ------------------------------ *)

\* C15: for all 8-bit colours and every ratio, blend_colors(c, c, r) = c,
\* blend_colors(c1, c2, 0) = c1, blend_colors(c1, c2, 1) = c2, and a ratio
\* below 0 or above 1 gives the result of ratio 0 or 1.  The doubles of
\* c * (1 - r) + c * r can round below c, so the first part fails.
C15_BlendEndpoints ==
    call.name = "blend_colors" =>
        LET color1 == call.args[1]
            color2 == call.args[2]
            num == call.args[3]
            den == call.args[4]
        IN  /\ color1 = color2 => call.result = color1
            /\ num = 0 => call.result = color1
            /\ num = den => call.result = color2
            /\ num < 0 => call.result = blend_colors(color1, color2, 0, den)
            /\ num > den => call.result = blend_colors(color1, color2, den, den)

(* ------------------------------ the buffer ---------------------------- *)

\* The step is a call of the buffer utility `name`
Utilised(name) == call'.n = call.n + 1 /\ call'.name = name

\* C16: after any sequence of start, stop, reset, tick, set_pixel,
\* set_all_pixels, clear, fade_to_black and blur with channel values in
\* 0..255 and amounts in [0, 1], the buffer holds exactly led_count RGB
\* triples with every channel an integer in 0..255, and it is all zeros
\* right after construction.
C16_BufferShape ==
    effect[1].kind # "none" =>
        /\ Len(effect[1].pixels) = effect[1].led_count
        /\ \A i \in 1..Len(effect[1].pixels) : IsRGB(effect[1].pixels[i])
        /\ effect[1].last = "init" =>
              \A i \in 1..effect[1].led_count : effect[1].pixels[i] = <<0, 0, 0>>

\* A buffer painted (3, 29, 255) throughout and then faded by 0.3
C16_Witness ==
    /\ call.n = 2
    /\ call.name = "fade_to_black"
    /\ call.args = <<3, 10>>
    /\ effect[1].last = "fade_to_black"
    /\ \A i \in 1..effect[1].led_count : effect[1].pixels[i] = <<2, 20, 178>>

\* C17: set_pixel(i, r, g, b) with i < 0 or i >= led_count raises nothing
\* and leaves the buffer unchanged; with 0 <= i < led_count it sets pixel i
\* to (r, g, b) and no other pixel.
C17_SetPixelChecksRange ==
    [][Utilised("set_pixel") =>
          LET index == call'.args[1]
              rgb == call'.args[2]
              before == effect[1]
              after == effect'[1]
          IN  /\ after = [before EXCEPT !.pixels = after.pixels,
                                        !.last = "set_pixel", !.hooks = <<>>]
              /\ Len(after.pixels) = Len(before.pixels)
              /\ (index < 0 \/ index >= before.led_count) =>
                    after.pixels = before.pixels
              /\ (0 <= index /\ index < before.led_count) =>
                    /\ after.pixels[index + 1] = rgb
                    /\ \A j \in 1..Len(before.pixels) :
                          j # index + 1 => after.pixels[j] = before.pixels[j]]_vars

\* set_pixel(-1, ...) on a buffer whose last pixel was painted before
C17_Witness ==
    /\ call.n = 2
    /\ call.name = "set_pixel"
    /\ call.args = <<0 - 1, <<255, 6, 128>>>>
    /\ effect[1].last = "set_pixel"
    /\ effect[1].pixels[effect[1].led_count] = <<3, 29, 255>>

\* The blend orig * (1 - amount) + filtered * amount of the claim, truncated,
\* with filtered = (left + 2 * orig + right) / 4 and amount = num / den
BlendOfFilter(left, orig, right, num, den) ==
    IntOf(4 * orig * (den - num) + (left + 2 * orig + right) * num, 4 * den)

\* C18: blur(amount) with amount in (0, 1] leaves the first and the last LED
\* unchanged and sets each interior LED i to the truncated blend
\* orig[i] * (1 - amount) + filtered[i] * amount, where filtered[i] is the
\* 0.25 / 0.5 / 0.25 weighted sum of the values of LEDs i-1, i, i+1 before
\* the call; blur with amount <= 0 leaves the buffer unchanged.
C18_BlurBlendsInterior ==
    [][Utilised("blur") =>
          LET num == call'.args[1]
              den == call'.args[2]
              before == effect[1].pixels
              after == effect'[1].pixels
              n == Len(before)
          IN  /\ Len(after) = n
              /\ num <= 0 => after = before
              /\ num > 0 =>
                    /\ after[1] = before[1]
                    /\ after[n] = before[n]
                    /\ \A i \in 2..(n - 1) : \A k \in 1..3 :
                          after[i][k] = BlendOfFilter(before[i - 1][k], before[i][k],
                                                      before[i + 1][k], num, den)]_vars

(* ------------------- C12: a spatial effect needs a model -------------- *)

\* A step that constructs an effect
Constructing ==
    /\ effect[1].kind = "none"
    /\ call'.name = "new"
    /\ now' = now

\* C12: constructing a HeightGradient, RisingWave, Spiral, RotatingPlane or
\* SpherePulse with no spatial model raises an error and leaves no
\* instance, while a Rainbow constructed without a model is an instance
\* with a zeroed buffer of led_count LEDs that is not running.
C12_SpatialNeedsModel ==
    [][Constructing =>
         LET kind == call'.args[1]
             given == call'.args[2]
         IN  /\ (kind \in SpatialKinds /\ ~given) =>
                    /\ call'.result = "ValueError"
                    /\ effect'[1] = NoEffect
             /\ kind = "Rainbow" =>
                    /\ call'.result = NoExc
                    /\ effect'[1].kind = "Rainbow"
                    /\ effect'[1].pixels = ZeroPixels(tree.led_count)
                    /\ ~effect'[1].running]_vars

C12_Witness ==
    /\ call.name = "new"
    /\ call.args = <<"RotatingPlane", FALSE>>
    /\ call.result = "ValueError"
    /\ effect[1] = NoEffect

(* -------------------- C20: the model is read-only --------------------- *)

ModelFields(t) == <<t.coordinates, t.bounds, t.center, t.led_count>>

\* A start, stop, reset or tick of the effect built against the model
Driving ==
    /\ effect[1].kind \in SpatialKinds
    /\ call' = call
    /\ now' = now

\* A call of the accessor that was called last
AccessingAgain ==
    /\ call'.name \in Accessors
    /\ call.name = call'.name
    /\ call'.n = call.n + 1

\* C20: no start, stop, reset or tick of an effect built against the model
\* changes its coordinates, bounds, center or led_count, and a
\* derived-feature accessor called twice in succession returns the same
\* values.
C20_ModelReadOnly ==
    [][/\ Driving => ModelFields(tree') = ModelFields(tree)
       /\ AccessingAgain => call'.result = call.result]_vars

C20_Witness ==
    /\ effect[1].kind = "SpherePulse"
    /\ effect[1].last = "tick"
    /\ effect[1].frame_count > 0
    /\ tree.bounds[3][1] # 0
    /\ call.name = "get_height_normalized"
    /\ call.n = 2
    /\ \E i \in 1..Len(call.result) : ~IsZero(call.result[i])

(* ----------------- C21: SpherePulse composites additively ------------- *)

\* What all pulses together add to channel k of LED i at the elapsed time
\* of self
PulseSum(self, tree_model, i, k) ==
    SeqSum([p \in 1..self.num_pulses |-> PulseColour(self, tree_model, p, i)[k]])

\* A tick() that ran the update of a SpherePulse
PulseTicking ==
    /\ effect[1].kind = "SpherePulse"
    /\ effect'[1].last = "tick"
    /\ effect'[1].frame_count = effect[1].frame_count + 1

\* C21: after each tick of a running SpherePulse every channel of every LED
\* is min(255, the sum over all pulses of what the pulse contributes at the
\* elapsed time), whatever the buffer held before the tick.
C21_PulsesAddClamped ==
    [][PulseTicking =>
         \A i \in 1..effect'[1].led_count : \A k \in 1..3 :
             effect'[1].pixels[i][k] =
                 Min(ChannelMax, PulseSum(effect'[1], tree, i, k))]_vars

\* Two pulses overflow a channel of a LED, over a buffer that was painted
C21_Witness ==
    /\ effect[1].kind = "SpherePulse"
    /\ Ticked(1)
    /\ call.name = "set_all_pixels"
    /\ call.args = <<(<<3, 29, 255>>)>>
    /\ \E i \in 1..effect[1].led_count : \E k \in 1..3 :
          /\ PulseSum(effect[1], tree, i, k) > ChannelMax
          /\ effect[1].pixels[i][k] = ChannelMax

(* ------------------- C22: the brightness of RisingWave ---------------- *)

\* A tick() that ran the update of a RisingWave
WaveTicking ==
    /\ effect[1].kind = "RisingWave"
    /\ effect'[1].last = "tick"
    /\ effect'[1].frame_count = effect[1].frame_count + 1

FracEq(a, b) == a[1] * b[2] = b[1] * a[2]

\* The scenario of wave_height 0.2 and a wave at 0.5
AtHalf(e) == e.width = <<1, 5>> /\ FracEq(wave_pos(e), <<1, 2>>)

\* C22: for a LED at height h and a wave at w the brightness is
\* (1 - |h - w| / wave_height)^2 when |h - w| < wave_height and 0
\* otherwise, always within [0, 1]; with wave_height 0.2 and w = 0.5 the LED
\* at 0.5 has brightness 1 and the LED at 0.8 brightness 0.
C22_WaveBrightness ==
    [][WaveTicking =>
         \A i \in 1..effect'[1].led_count :
            LET h == effect'[1].heights[i]
                w == wave_pos(effect'[1])
                a == effect'[1].width
                b == effect'[1].shade[i].brightness
                \* |h - w| = d / (h[2] * w[2])
                d == Abs(h[1] * w[2] - w[1] * h[2])
                q == h[2] * w[2]
            IN  /\ InUnit(b)
                /\ d * a[2] < a[1] * q =>
                      \* b = ((a q - d) / (a q))^2
                      b[1] * (a[1] * q) * (a[1] * q)
                         = b[2] * (a[1] * q - d * a[2]) * (a[1] * q - d * a[2])
                /\ d * a[2] >= a[1] * q => IsZero(b)
                /\ (AtHalf(effect'[1]) /\ FracEq(h, <<1, 2>>)) => FracEq(b, <<1, 1>>)
                /\ (AtHalf(effect'[1]) /\ FracEq(h, <<4, 5>>)) => IsZero(b)]_vars

C22_Witness ==
    /\ effect[1].kind = "RisingWave"
    /\ Ticked(1)
    /\ AtHalf(effect[1])
    /\ \E i, j \in 1..effect[1].led_count :
          /\ FracEq(effect[1].heights[i], <<1, 2>>)
          /\ FracEq(effect[1].shade[i].brightness, <<1, 1>>)
          /\ effect[1].pixels[i] = <<0, 255, 255>>
          /\ FracEq(effect[1].heights[j], <<4, 5>>)
          /\ IsZero(effect[1].shade[j].brightness)
          /\ effect[1].pixels[j] = Black

(* ------------------ C23: the shorter arc, the brightness --------------- *)

\* A tick() that ran the update of a Spiral or of a RotatingPlane
ArcTicking ==
    /\ effect[1].kind \in {"Spiral", "RotatingPlane"}
    /\ effect'[1].last = "tick"
    /\ effect'[1].frame_count = effect[1].frame_count + 1

FracLeq(a, b) == a[1] * b[2] <= b[1] * a[2]

\* d is the shorter of the two arcs between the angles a and t (in turns)
ShorterArc(d, a, t) ==
    LET one == FracAbsDiff(a, t)
        other == FracOneMinus(one)
    IN  /\ FracEq(d, one) \/ FracEq(d, other)
        /\ FracLeq(d, one)
        /\ FracLeq(d, other)

\* C23: in Spiral and RotatingPlane the angular distance used for the
\* brightness of a LED is the shorter arc between the angle of the LED and
\* the target angle, so it lies in [0, pi], and the brightness lies in
\* [0, 1].
C23_ShorterArc ==
    [][ArcTicking =>
         \A i \in 1..effect'[1].led_count :
            LET sh == effect'[1].shade[i]
            IN  /\ ShorterArc(sh.diff, <<effect'[1].angles[i], TurnParts>>, sh.target)
                /\ 0 <= sh.diff[1] /\ FracLeq(sh.diff, HalfTurn)
                /\ InUnit(sh.brightness)]_vars

\* A LED more than half a turn from its target, folded, and lit in part
C23_Witness ==
    /\ effect[1].kind \in {"Spiral", "RotatingPlane"}
    /\ Ticked(1)
    /\ \E i \in 1..effect[1].led_count :
          LET sh == effect[1].shade[i]
          IN  /\ FracLess(HalfTurn,
                          FracAbsDiff(<<effect[1].angles[i], TurnParts>>, sh.target))
              /\ FracLess(<<0, 1>>, sh.brightness)
              /\ FracLess(sh.brightness, <<1, 1>>)

(* ----------------- C24: one tick, one hand-off per frame -------------- *)

\* A step of run_effect from the position pc that is not the arrival of a
\* KeyboardInterrupt
Steps(pc) ==
    /\ driver.pc = pc
    /\ driver' # driver
    /\ driver'.left # "interrupt"

\* C24: every iteration of run_effect makes one tick and then one hand-off
\* of the buffer of that tick to the sink; a transmission that fails is not
\* repeated and does not end the loop, which goes on to pace the frame and
\* to tick the next one.
C24_OneTickOneHandOff ==
    [][/\ Steps("tick") =>
             /\ driver'.pc = "stream"
             /\ effect'[1].frame_count = Len(driver.sent) + 1
             /\ driver'.sent = driver.sent
       /\ Steps("stream") =>
             /\ driver'.pc = "pace"
             /\ Len(driver'.sent) = Len(driver.sent) + 1
             /\ driver'.sent[Len(driver'.sent)].frame = Len(driver'.sent)
             /\ driver'.sent[Len(driver'.sent)].pixels = effect[1].pixels
             /\ effect' = effect
       /\ (Steps("pace") \/ Steps("sleep")) =>
             /\ driver'.pc \in {"sleep", "check"}
             /\ driver'.sent = driver.sent
             /\ effect' = effect
       /\ (Steps("check") /\ driver'.left = "none") =>
             /\ driver'.pc = "tick"
             /\ effect' = effect]_vars

\* The first transmission failed, and the second frame was ticked and handed
C24_Witness ==
    /\ Len(driver.sent) = 2
    /\ ~driver.sent[1].ok
    /\ driver.sent[2].frame = 2
    /\ effect[1].frame_count = 2
    /\ driver.pc = "pace"

(* ------------------ C25: leaving the loop stops the effect ------------ *)

\* C25: when run_effect has left its loop, by the duration or by an
\* interrupt, effect.stop() was called exactly once, the effect is not
\* running, and every frame that was ticked was handed to the sink before
\* the stop.
C25_StopsAfterFrame ==
    driver.pc = "done" =>
        /\ driver.stops = 1
        /\ ~effect[1].running
        /\ effect[1].frame_count = Len(driver.sent)

(* --------------------- C26: the sleep after a frame ------------------- *)

\* C26 as stated: the sleep after a frame is 1/fps minus the time the tick
\* and the transmission of that frame took, and none when the frame used
\* its whole budget.
C26_SleepsFrameRemainder ==
    [][Steps("pace") =>
         FracEq(driver'.paced.sleep,
                <<Max(0, 1 - driver'.paced.work * Fps), Fps>>)]_vars

\* C26, amended: the sleep after frame n is n/fps minus the time since the
\* loop started, and none when that is not positive; it is 1/fps minus the
\* work of the frame when the frame began on schedule, and shorter by the
\* delay when the frame began late.
C26_SleepsToSchedule ==
    [][Steps("pace") =>
         LET p == driver'.paced
             due == driver.frame_count - (now - driver.start_time) * Fps
         IN  /\ p.frame = driver.frame_count
             /\ FracEq(p.sleep, <<Max(0, due), Fps>>)
             /\ due > 0 => driver'.pc = "sleep" /\ driver'.wake * Fps = now * Fps + due
             /\ due <= 0 => driver'.pc = "check"
             /\ p.late >= 0
             /\ FracEq(p.sleep, <<Max(0, 1 - p.work * Fps - p.late), Fps>>)]_vars

\* The second frame began late and took no time: no sleep follows it
C26_Witness ==
    /\ driver.pc = "check"
    /\ driver.paced # <<>>
    /\ driver.paced.frame = 2
    /\ driver.paced.late > 0
    /\ driver.paced.work = 0
    /\ IsZero(driver.paced.sleep)

(* ---------------- C27: a running effect has a start time -------------- *)

\* C27: in every reachable state of an effect, running implies that
\* start_time is set (not None): only start() sets running, after it has
\* set start_time, so tick() never takes its start_time-is-None branch.
C27_RunningHasStartTime ==
    \A e \in Inst : effect[e].running => effect[e].start_time # None

\* An effect that was started late, ticked and is running
C27_Witness ==
    /\ effect[1].running
    /\ Ticked(1)
    /\ effect[1].start_time > 0
    /\ effect[1].frame_count = 1

(* ------------- C28: elapsed time is measured from start() ------------- *)

Streamed ==
    /\ call.name = "stream_pixels_ddp"
    /\ call.args[1] >= 1
    /\ call.args[2] >= 0
    /\ call.args[3]

\* The packets q are consecutive chunks of at most 480 pixels from pixel 0
\* on, each with the start channel 3 * first + start_channel
Consecutive(q, start_channel) ==
    \A k \in 1..Len(q) :
        /\ q[k].first = (IF k = 1 THEN 0 ELSE q[k - 1].end)
        /\ q[k].end - q[k].first \in 1..MaxPixelsPerPacket
        /\ q[k].size = 3 * (q[k].end - q[k].first)
        /\ q[k].channel = 3 * q[k].first + start_channel

\* The packets q cover the pixels 0 .. n-1, and the last alone is pushed
Complete(q, n) ==
    /\ Len(q) >= 1
    /\ q[Len(q)].end = n
    /\ \A k \in 1..Len(q) : (q[k].flags = 1) <=> (k = Len(q))

\* The number of packets of a frame of n pixels
PacketsOf(n) == (n + MaxPixelsPerPacket - 1) \div MaxPixelsPerPacket

\* C29 as stated: the packets sent cover every pixel once, in order, in
\* chunks of at most 480, with start channel 3 * first + start_channel;
\* exactly one carries the push flag, the last one sent; the call returns
\* False if a send fails (and never raises).
C29_PacketsCoverFrame ==
    Streamed =>
        /\ Consecutive(call.result.sent, call.args[2])
        /\ Complete(call.result.sent, call.args[1])
        /\ call.args[4] \in 1..PacketsOf(call.args[1]) => ~call.result.value

\* C29, amended: when no send fails the call returns True and the packets
\* are as stated; when send number k fails the call returns False having
\* sent the first k - 1 packets only, none of which carries the push flag.
C29_PacketsUntilFailure ==
    Streamed =>
        LET q == call.result.sent
            n == call.args[1]
            k == call.args[4]
        IN  /\ Consecutive(q, call.args[2])
            /\ k \notin 1..PacketsOf(n) =>
                  /\ call.result.value
                  /\ Complete(q, n)
            /\ k \in 1..PacketsOf(n) =>
                  /\ ~call.result.value
                  /\ Len(q) = k - 1
                  /\ \A j \in 1..Len(q) : q[j].flags = 0

\* A frame of 961 pixels from channel 3 on, sent in three packets
C29_Witness ==
    /\ Streamed
    /\ call.args = <<961, 3, TRUE, 0>>
    /\ call.result.value
    /\ Len(call.result.sent) = 3
    /\ call.result.sent[3] =
          [first |-> 960, end |-> 961, size |-> 3, flags |-> 1, channel |-> 2883]

(* ---------------------------------------------------------------------- *)
(* C30: main constructs every effect with the LED count of the model as    *)
(* loaded, not the configured one.  So the pixel buffer of the effect is   *)
(* as long as the coordinates of the model and as each per-LED             *)
(* feature the effect precomputed (heights, angles), every index the       *)
(* update loop uses lies inside them, and every pulse origin is an LED of  *)
(* the model; this holds also when the file has fewer or more rows than    *)
(* the configured count, and when the load fell back.                      *)
(* ---------------------------------------------------------------------- *)

\* The per-LED arrays the update loop of the effect indexes with
\* range(self.led_count)
Features(self, tree_model) ==
    CASE self.kind \in {"HeightGradient", "RisingWave"} -> <<self.heights>>
      [] self.kind \in {"Spiral", "RotatingPlane"} ->
            <<self.heights, self.angles>>
      [] self.kind = "SpherePulse" ->
            [p \in 1..self.num_pulses |->
                get_distances_from_point(tree_model,
                    get_position(tree_model, self.origins[p]))]
      [] OTHER -> <<>>

\* The rows of the file and the configured count differ
Mismatched(src) ==
    /\ src.csv_path = "file"
    /\ ReadExc(src) = NoExc
    /\ Len(ReadRows(src.rows)) # src.led_count

C30_MainUsesModelCount ==
    \A e \in Inst :
        effect[e].kind # "none" =>
            /\ effect[e].led_count = tree.led_count
            /\ Len(effect[e].pixels) = Len(tree.coordinates)
            /\ effect[e].kind = "SpherePulse" =>
                  \A p \in 1..effect[e].num_pulses :
                      effect[e].origins[p] + 1 \in 1..Len(tree.coordinates)
            /\ \A k \in DOMAIN Features(effect[e], tree) :
                  LET f == Features(effect[e], tree)[k]
                  IN  /\ Len(f) = Len(effect[e].pixels)
                      /\ \A i \in 0..(effect[e].led_count - 1) :
                            i + 1 \in DOMAIN f

\* A spatial effect over a file of three rows, configured for two LEDs, has
\* rendered a frame of three pixels
C30_Witness ==
    /\ Mismatched(source)
    /\ tree.path = "loaded"
    /\ Len(tree.coordinates) > source.led_count
    /\ effect[1].kind = "Spiral"
    /\ effect[1].running
    /\ effect[1].frame_count >= 1
    /\ effect[1].hooks # <<>>
    /\ effect[1].hooks[Len(effect[1].hooks)].hook = "update"
    /\ Len(effect[1].pixels) = 3

====
